---- MODULE Spec2Model ----
(***************************************************************************)
(* FlowCode: the container pool (DockerService.getAvailableContainer and   *)
(* the /api/docker route handlers it talks to) and the command repair      *)
(* routine (shell_fix_command).                                            *)
(*                                                                         *)
(* The container runtime is the shared state.  A route handler runs its    *)
(* docker commands with execSync, so one handler is one atomic step; the   *)
(* client code of DockerService suspends at every await, so one client     *)
(* step runs from one await to the next.                                   *)
(***************************************************************************)
EXTENDS Integers, Sequences, FiniteSets, TLC

VARIABLES
  runtime,        \* docker: container number -> [image, status, created]
  nextId,         \* number of the next container docker will create
  initState,      \* DockerService.initPromise / isInitialized: pending, ok, failed
  containerPool,  \* DockerService.containerPool: the ids it has as keys
  pc,             \* per caller: where its getAvailableContainer call stands
  config,         \* per caller: the config argument of the call
  containers,     \* per caller: the list the call obtained first (line 354)
  keepId,         \* per caller: keepContainerId of the running cleanup
  todo,           \* per caller: what the cleanup's for loop has still to visit
  phase,          \* per caller: 0 no cleanup yet, 1 the cleanup of line 373, 2 of line 422
  containerInfo,  \* per caller: what the create endpoint answered (line 415)
  result,         \* per caller: the ContainerInfo the call returned
  trace,          \* per caller: what the call observed and requested (history)
  lastDelete,     \* the last DELETE handler run since the last call began (history)
  env,            \* environment history: faults and container exits so far
  calls,          \* the number of calls made so far (history)
  first,          \* the first call that finished: its config and outcome (history)
  fix,            \* shell_fix_command: the locals of the running repair
  planner,        \* generateAgenticPlan: the locals of the running call
  structured,     \* getStructuredResponse: the running call and what it returned
  indicator,      \* StatusIndicator: its state, its timer and its fetches
  execution,      \* useDockerExecution.execute: the running call, its request and timer
  cleanupOthers,  \* POST /api/docker/cleanup-others: the last request and its answer
  taskDetails,    \* TaskDetails: its state, its timer and its executeStep requests
  sequence        \* useDockerExecution.executeSequence: the running call and its results

poolVars == <<runtime, nextId, initState, containerPool, pc, config, containers,
              keepId, todo, phase, containerInfo, result, trace, lastDelete,
              env, calls, first>>

fixVars == <<fix>>

\* what the actions of one component leave alone
exceptPool == <<fix, planner, structured, indicator, execution, cleanupOthers, taskDetails,
  sequence>>
exceptFix == <<poolVars, planner, structured, indicator, execution, cleanupOthers, taskDetails,
  sequence>>
exceptPlanner == <<poolVars, fix, structured, indicator, execution, cleanupOthers, taskDetails,
  sequence>>
exceptStructured == <<poolVars, fix, planner, indicator, execution, cleanupOthers, taskDetails,
  sequence>>
exceptIndicator == <<poolVars, fix, planner, structured, execution, cleanupOthers, taskDetails,
  sequence>>
exceptExecution == <<poolVars, fix, planner, structured, indicator, cleanupOthers, taskDetails,
  sequence>>
exceptSequence == <<poolVars, fix, planner, structured, indicator, cleanupOthers, taskDetails>>
exceptCleanupOthers == <<nextId, initState, containerPool, pc, config, containers,
                         keepId, todo, phase, containerInfo, result, trace,
                         lastDelete, env, calls, first, fix, planner, structured,
                         indicator, execution, taskDetails, sequence>>
exceptTaskDetails == <<poolVars, fix, planner, structured, indicator, execution,
                       cleanupOthers, sequence>>

vars == <<runtime, nextId, initState, containerPool, pc, config, containers,
          keepId, todo, phase, containerInfo, result, trace, lastDelete,
          env, calls, first, fix, planner, structured, indicator, execution,
          cleanupOthers, taskDetails, sequence>>

-----------------------------------------------------------------------------
(* Bounds of the model *)

MaxPreexisting == 2     \* containers the runtime holds before the service starts
MaxCreated == 3         \* containers docker creates during a run
MaxCalls == 2           \* getAvailableContainer calls in a run
MaxFaults == 2          \* requests that fail and containers that exit in a run
MaxInitializeCalls == 3 \* calls of initialize() in a run, the constructor's included

\* the callers whose calls may overlap (two overlapping calls)
Callers == {1, 2}

-----------------------------------------------------------------------------
(* Container ids.  docker run prints the full id; docker ps --format        *)
(* {{.ID}} prints its truncation; every docker command accepts both.        *)

DefaultImage == "codeai-execution-env:latest"
OtherImage == "codeai-python:3"
Images == {DefaultImage, OtherImage}

FullId(n) == [n |-> n, form |-> "full"]
ShortId(n) == [n |-> n, form |-> "short"]
NoId == [n |-> 0, form |-> "none"]

\* docker resolves an id or an id prefix to the container it denotes
Resolve(id) == id.n

Exists(rt, id) == Resolve(id) \in DOMAIN rt

\* the configs a caller passes: none, or one naming an image
NoConfig == [given |-> FALSE, image |-> ""]
Configs == {NoConfig} \cup {[given |-> TRUE, image |-> i] : i \in Images}

NoInfo == [id |-> NoId, image |-> "", status |-> "", created |-> 0]

-----------------------------------------------------------------------------
(* GET /api/docker/containers *)

\* the normalized status of a docker status text
StatusText(status) ==
  IF status = "Up" THEN "running"
  ELSE IF status = "Exited" THEN "exited"
  ELSE IF status = "Created" THEN "created"
  ELSE "unknown"

RECURSIVE PsLines(_, _)
\* docker ps -a: one line per container, the newest first
PsLines(rt, left) ==
  IF left = {} THEN <<>>
  ELSE LET n == CHOOSE x \in left : \A y \in left : rt[y].created <= rt[x].created
       IN  <<[id |-> ShortId(n), image |-> rt[n].image,
              status |-> StatusText(rt[n].status), created |-> rt[n].created]>>
           \o PsLines(rt, left \ {n})

\* a variant that answers a failed docker ps with an empty list
ContainersRouteEmptyOnError(rt, ok) ==
  [ok |-> TRUE, body |-> IF ok THEN PsLines(rt, DOMAIN rt) ELSE <<>>]

ContainersRoute(rt, ok) ==
  IF ok THEN [ok |-> TRUE, body |-> PsLines(rt, DOMAIN rt)]
  ELSE [ok |-> FALSE, body |-> <<>>]

-----------------------------------------------------------------------------
(* POST /api/docker/container *)

\* image = config.image || 'codeai-execution-env:latest'
ImageOf(cfg) == IF cfg.given /\ cfg.image # "" THEN cfg.image ELSE DefaultImage

\* outcome: "ok"; "runFailed" (docker run fails); "inspectFailed" (docker run
\* succeeded, docker container inspect threw: the handler answers 500 and
\* the container stays)
ContainerRoute(rt, n, cfg, outcome) ==
  LET made == [x \in DOMAIN rt \cup {n} |->
                 IF x = n THEN [image |-> ImageOf(cfg), status |-> "Up", created |-> n]
                 ELSE rt[x]]
  IN  IF outcome = "runFailed" THEN [ok |-> FALSE, rt |-> rt, body |-> NoInfo]
      ELSE IF outcome = "inspectFailed" THEN [ok |-> FALSE, rt |-> made, body |-> NoInfo]
      ELSE [ok |-> TRUE, rt |-> made,
            body |-> [id |-> FullId(n), image |-> ImageOf(cfg),
                      status |-> "running", created |-> n]]

-----------------------------------------------------------------------------
(* DELETE /api/docker/container/[id] *)

Without(rt, n) == [x \in DOMAIN rt \ {n} |-> rt[x]]

Stopped(rt, n) == [rt EXCEPT ![n].status = "Exited"]

\* docker container inspect, then docker stop and docker rm in one try block
DeleteRoute(rt, id, stopOk, rmOk) ==
  IF ~Exists(rt, id)
  THEN [status |-> 404, rt |-> rt, stop |-> "none", rm |-> "none"]
  ELSE LET n == Resolve(id)
       IN  IF ~stopOk
           THEN [status |-> 500, rt |-> rt, stop |-> "failed", rm |-> "none"]
           ELSE IF ~rmOk
           THEN [status |-> 500, rt |-> Stopped(rt, n), stop |-> "ok", rm |-> "failed"]
           ELSE [status |-> 200, rt |-> Without(rt, n), stop |-> "ok", rm |-> "ok"]

NoDelete == [id |-> NoId, status |-> 0, stop |-> "none", rm |-> "none"]

-----------------------------------------------------------------------------
(* POST /api/docker/initialize *)

\* what the batch docker stop / docker rm leaves of each container
RemovalOutcomes == {"removed", "stopped", "untouched"}

AfterBatch(rt, left) ==
  [x \in {y \in DOMAIN rt : left[y] # "removed"} |->
     IF left[x] = "stopped" THEN [rt[x] EXCEPT !.status = "Exited"] ELSE rt[x]]

\* outcome: "noDocker", "imageFailed", "runFailed", "execFailed" or "ok";
\* listOk: the docker ps of the cleanup; left: see AfterBatch
InitializeRoute(rt, n, outcome, listOk, left) ==
  LET cleaned == IF listOk THEN AfterBatch(rt, left) ELSE rt
      made == [x \in DOMAIN cleaned \cup {n} |->
                 IF x = n THEN [image |-> DefaultImage, status |-> "Up", created |-> n]
                 ELSE cleaned[x]]
  IN  IF outcome = "noDocker" THEN [ok |-> FALSE, rt |-> rt, body |-> NoInfo]
      ELSE IF outcome \in {"imageFailed", "runFailed"}
      THEN [ok |-> FALSE, rt |-> cleaned, body |-> NoInfo]
      ELSE IF outcome = "execFailed" THEN [ok |-> FALSE, rt |-> made, body |-> NoInfo]
      ELSE [ok |-> TRUE, rt |-> made,
            body |-> [id |-> FullId(n), image |-> DefaultImage,
                      status |-> "running", created |-> n]]

-----------------------------------------------------------------------------
(* DockerService: helpers of getAvailableContainer *)

\* the comparator of containers.sort: newest first, 0 when a date is missing
CompareCreated(a, b) ==
  IF a.created = 0 \/ b.created = 0 THEN 0 ELSE b.created - a.created

RECURSIVE InsertSorted(_, _)
InsertSorted(sorted, x) ==
  IF sorted = <<>> THEN <<x>>
  ELSE IF CompareCreated(x, Head(sorted)) < 0 THEN <<x>> \o sorted
  ELSE <<Head(sorted)>> \o InsertSorted(Tail(sorted), x)

RECURSIVE SortByCreated(_)
\* Array.prototype.sort with CompareCreated (a stable sort)
SortByCreated(list) ==
  IF list = <<>> THEN <<>>
  ELSE InsertSorted(SortByCreated(SubSeq(list, 1, Len(list) - 1)), list[Len(list)])

\* status === 'running' && (!config || image === config.image)
Reusable(c, cfg) == c.status = "running" /\ (~cfg.given \/ c.image = cfg.image)

\* a variant that spares the containers that are running
CleanupTargetsStopped(list, keep) ==
  SelectSeq(list, LAMBDA c : c.id # keep /\ c.status # "running")

\* the containers the cleanup loop hands to removeContainer:
\* container.id !== keepContainerId
CleanupTargets(list, keep) == SelectSeq(list, LAMBDA c : c.id # keep)

IdsOf(list) == {list[i].id : i \in 1..Len(list)}

\* what a call has observed and requested: how its first listing and its
\* create request ended, whether another call had listed and not yet acted
\* when it listed, the removals it attempted in each cleanup, whether
\* a DELETE request went out, the removals that failed, and, once it has
\* finished, whether the returned container existed and how many containers
\* did at that moment
NoTrace == [list |-> "none", overlap |-> FALSE, cleanupListFailed |-> FALSE,
            create |-> "none",
            attempted1 |-> {}, attempted2 |-> {}, requested |-> FALSE, failed |-> {},
            alive |-> FALSE, count |-> 0, nth |-> 0]

InFlight(p) == pc[p] \in {"getAll", "cleanupGetAll", "cleanupLoop", "create"}

\* the call has listed and has neither removed nor created yet
Undecided(p) ==
  /\ InFlight(p)
  /\ trace[p].list = "ok"
  /\ ~trace[p].requested
  /\ trace[p].create = "none"

\* the trace of a call completed at the moment it returns or rejects
Finished(tr, info, rt) ==
  [tr EXCEPT !.alive = Exists(rt, info.id), !.count = Cardinality(DOMAIN rt),
             !.nth = calls]

NoFirst == [config |-> NoConfig, outcome |-> "none", n |-> 0]

\* the first finished call is remembered
FirstAfter(cfg, outcome, info) ==
  IF first.outcome = "none"
  THEN [config |-> cfg, outcome |-> outcome, n |-> Resolve(info.id)]
  ELSE first

-----------------------------------------------------------------------------
(* Initial state: the service has just been constructed; its constructor   *)
(* has called initialize(), whose request is in flight.                    *)

PoolInit ==
  /\ \E k \in 0..MaxPreexisting :
       /\ \E f \in [1..k -> {"Up", "Exited"}] :
            runtime = [n \in 1..k |->
                         [image |-> DefaultImage, status |-> f[n], created |-> n]]
       /\ env = [preexisting |-> k, removeFailed |-> FALSE,
                 cleanupListFailed |-> FALSE, faults |-> 0,
                 initializeCalls |-> 1, initializeRequests |-> 1]
  /\ nextId = MaxPreexisting + 1
  /\ initState = "pending"
  /\ containerPool = {}
  /\ pc = [p \in Callers |-> "idle"]
  /\ config = [p \in Callers |-> NoConfig]
  /\ containers = [p \in Callers |-> <<>>]
  /\ keepId = [p \in Callers |-> NoId]
  /\ todo = [p \in Callers |-> <<>>]
  /\ phase = [p \in Callers |-> 0]
  /\ containerInfo = [p \in Callers |-> NoInfo]
  /\ result = [p \in Callers |-> NoInfo]
  /\ trace = [p \in Callers |-> NoTrace]
  /\ lastDelete = NoDelete
  /\ calls = 0
  /\ first = NoFirst

-----------------------------------------------------------------------------
(* DockerService.initialize.  initState stands for isInitialized and        *)
(* initPromise: "none" (false, null), "pending" (false, a pending promise), *)
(* "ok" (true, fulfilled), "failed" (false, rejected).                     *)

\* a variant that forgets a rejected promise and sends the request again
initializeAgain(state, requests) ==
  IF state \in {"ok", "pending"} THEN [state |-> state, requests |-> requests]
  ELSE [state |-> "pending", requests |-> requests + 1]

\* lines 217-268 up to the fetch: the state after a call and the requests
\* sent so far
initialize(state, requests) ==
  IF state = "ok" THEN [state |-> state, requests |-> requests]
  ELSE IF state # "none" THEN [state |-> state, requests |-> requests]
  ELSE [state |-> "pending", requests |-> requests + 1]

\* if (!this.isInitialized) await this.initialize()
ensureInitialized(state, requests) ==
  IF state # "ok" THEN initialize(state, requests)
  ELSE [state |-> state, requests |-> requests]

\* a hook or an operation calls initialize() or ensureInitialized(), at any
\* moment
InitializeCalled ==
  /\ UNCHANGED exceptPool
  /\ env.initializeCalls < MaxInitializeCalls
  /\ LET r == ensureInitialized(initState, env.initializeRequests)
     IN  /\ initState' = r.state
         /\ env' = [env EXCEPT !.initializeCalls = @ + 1,
                               !.initializeRequests = r.requests]
  /\ UNCHANGED <<runtime, nextId, containerPool, pc, config, containers, keepId,
                 todo, phase, containerInfo, result, trace, lastDelete, calls, first>>

-----------------------------------------------------------------------------
(* DockerService.initialize: the request the constructor issued completes  *)

\* the requests of the handler that failed
InitFaults(outcome, listOk, left) ==
  (IF outcome # "ok" THEN 1 ELSE 0) + (IF listOk THEN 0 ELSE 1)
  + Cardinality({x \in DOMAIN left : left[x] # "removed"})

Initialize(outcome, listOk, left) ==
  /\ UNCHANGED exceptPool
  /\ initState = "pending"
  /\ LET r == InitializeRoute(runtime, nextId, outcome, listOk, left)
     IN  /\ runtime' = r.rt
         /\ nextId' = IF nextId \in DOMAIN r.rt THEN nextId + 1 ELSE nextId
         /\ initState' = IF r.ok THEN "ok" ELSE "failed"
         /\ containerPool' = IF r.ok THEN containerPool \cup {r.body.id}
                             ELSE containerPool
         /\ env' = [env EXCEPT !.faults = InitFaults(outcome, listOk, left)]
         /\ env'.faults <= MaxFaults
  /\ UNCHANGED <<pc, config, containers, keepId, todo, phase, containerInfo,
                 result, trace, lastDelete, calls, first>>

-----------------------------------------------------------------------------
(* DockerService.getAvailableContainer *)

\* a variant in which a call waits until no other call is in flight
CallGuardLocked(p) == initState # "pending" /\ \A q \in Callers : ~InFlight(q)

\* await this.ensureInitialized() lets a call proceed once initialization has
\* settled; nothing else holds a call back
CallGuard(p) == ~InFlight(p) /\ initState # "pending"

Call(p, cfg) ==
  /\ UNCHANGED exceptPool
  /\ CallGuard(p)
  /\ calls < MaxCalls
  /\ calls' = calls + 1
  /\ config' = [config EXCEPT ![p] = cfg]
  /\ containers' = [containers EXCEPT ![p] = <<>>]
  /\ keepId' = [keepId EXCEPT ![p] = NoId]
  /\ todo' = [todo EXCEPT ![p] = <<>>]
  /\ phase' = [phase EXCEPT ![p] = 0]
  /\ containerInfo' = [containerInfo EXCEPT ![p] = NoInfo]
  /\ result' = [result EXCEPT ![p] = NoInfo]
  /\ IF initState = "failed"
     THEN /\ pc' = [pc EXCEPT ![p] = "rejected"]
          /\ trace' = [trace EXCEPT ![p] =
                         [Finished(NoTrace, NoInfo, runtime) EXCEPT !.nth = calls + 1]]
          /\ first' = FirstAfter(cfg, "rejected", NoInfo)
     ELSE /\ pc' = [pc EXCEPT ![p] = "getAll"]
          /\ trace' = [trace EXCEPT ![p] = NoTrace]
          /\ first' = first
  /\ lastDelete' = NoDelete
  /\ LET r == ensureInitialized(initState, env.initializeRequests)
     IN  /\ initState' = r.state
         /\ env' = [env EXCEPT !.initializeRequests = r.requests]
  /\ UNCHANGED <<runtime, nextId, containerPool>>

\* lines 352-394: the first listing and the branch that follows it
GetAll(p, ok) ==
  /\ UNCHANGED exceptPool
  /\ pc[p] = "getAll"
  /\ ok \/ env.faults < MaxFaults
  /\ LET r == ContainersRoute(runtime, ok)
         list == IF Len(r.body) > 1 THEN SortByCreated(r.body) ELSE r.body
         listed == [trace[p] EXCEPT !.list = IF ok THEN "ok" ELSE "failed",
                                    !.overlap = \E q \in Callers \ {p} : Undecided(q)]
     IN  IF ~r.ok
         THEN /\ pc' = [pc EXCEPT ![p] = "rejected"]
              /\ trace' = [trace EXCEPT ![p] =
                             Finished(listed, NoInfo, runtime)]
              /\ env' = [env EXCEPT !.faults = @ + 1]
              /\ first' = FirstAfter(config[p], "rejected", NoInfo)
              /\ UNCHANGED <<containerPool, containers, keepId, phase, result>>
         ELSE /\ containerPool' = containerPool \cup IdsOf(r.body)
              /\ containers' = [containers EXCEPT ![p] = list]
              /\ env' = env
              /\ IF Len(list) > 1
                 THEN /\ keepId' = [keepId EXCEPT ![p] = list[1].id]
                      /\ phase' = [phase EXCEPT ![p] = 1]
                      /\ pc' = [pc EXCEPT ![p] = "cleanupGetAll"]
                      /\ trace' = [trace EXCEPT ![p] = listed]
                      /\ UNCHANGED <<result, first>>
                 ELSE IF Len(list) = 1 /\ Reusable(list[1], config[p])
                 THEN /\ pc' = [pc EXCEPT ![p] = "returned"]
                      /\ result' = [result EXCEPT ![p] = list[1]]
                      /\ trace' = [trace EXCEPT ![p] =
                                     Finished(listed, list[1], runtime)]
                      /\ first' = FirstAfter(config[p], "returned", list[1])
                      /\ UNCHANGED <<keepId, phase>>
                 ELSE /\ pc' = [pc EXCEPT ![p] = "create"]
                      /\ trace' = [trace EXCEPT ![p] = listed]
                      /\ UNCHANGED <<keepId, phase, result, first>>
  /\ UNCHANGED <<runtime, nextId, initState, config, todo, containerInfo, lastDelete,
                 calls>>

\* forceCleanupExceptLatest, lines 628-631: its own listing; a failure is
\* caught (the cleanup returns false and removes nothing)
CleanupGetAll(p, ok) ==
  /\ UNCHANGED exceptPool
  /\ pc[p] = "cleanupGetAll"
  /\ ok \/ env.faults < MaxFaults
  /\ LET r == ContainersRoute(runtime, ok)
     IN  IF ~r.ok
         THEN /\ todo' = [todo EXCEPT ![p] = <<>>]
              /\ trace' = [trace EXCEPT ![p].cleanupListFailed = TRUE]
              /\ env' = [env EXCEPT !.cleanupListFailed = TRUE, !.faults = @ + 1]
              /\ containerPool' = containerPool
         ELSE /\ todo' = [todo EXCEPT ![p] = CleanupTargets(r.body, keepId[p])]
              /\ containerPool' = containerPool \cup IdsOf(r.body)
              /\ UNCHANGED <<trace, env>>
  /\ pc' = [pc EXCEPT ![p] = "cleanupLoop"]
  /\ UNCHANGED <<runtime, nextId, initState, config, containers, keepId, phase,
                 containerInfo, result, lastDelete, calls, first>>

\* a variant whose loop ends at the first removal that fails
NextRoundAbort(left, removed) == IF removed THEN Tail(left) ELSE <<>>

\* the catch inside the loop: the next container is tried whether or not this
\* one was removed
NextRound(left, removed) == Tail(left)

\* a variant that lets the error of a removal reach the caller
AfterRemovePropagating(at, removed) == IF removed THEN at ELSE "rejected"

\* the error of a removal is logged, the call goes on with its loop
AfterRemove(at, removed) == at

\* one round of the loop of lines 634-643: removeContainer (lines 541-581)
\* and the DELETE handler; whatever removeContainer throws is caught
CleanupRemove(p, stopOk, rmOk) ==
  /\ UNCHANGED exceptPool
  /\ pc[p] = "cleanupLoop"
  /\ todo[p] # <<>>
  /\ (stopOk /\ rmOk) \/ env.faults < MaxFaults
  /\ LET c == Head(todo[p])
         n == Resolve(c.id)
         known == c.id \in containerPool
         r == DeleteRoute(runtime, c.id, stopOk, rmOk)
         removed == known /\ r.status = 200
         seen == IF phase[p] = 1
                 THEN [trace[p] EXCEPT !.attempted1 = @ \cup {n}]
                 ELSE [trace[p] EXCEPT !.attempted2 = @ \cup {n}]
     IN  /\ runtime' = IF known THEN r.rt ELSE runtime
         /\ lastDelete' = IF known
                          THEN [id |-> c.id, status |-> r.status, stop |-> r.stop,
                                rm |-> r.rm]
                          ELSE lastDelete
         /\ containerPool' = IF removed THEN containerPool \ {c.id} ELSE containerPool
         /\ trace' = [trace EXCEPT ![p] =
                        [seen EXCEPT
                           !.requested = @ \/ known,
                           !.failed = IF removed THEN @ ELSE @ \cup {n}]]
         /\ env' = IF known /\ ~removed
                   THEN [env EXCEPT !.removeFailed = TRUE,
                                    !.faults = IF stopOk /\ rmOk THEN @ ELSE @ + 1]
                   ELSE env
         /\ todo' = [todo EXCEPT ![p] = NextRound(@, removed)]
         /\ pc' = [pc EXCEPT ![p] = AfterRemove(@, removed)]
  /\ UNCHANGED <<nextId, initState, config, containers, keepId, phase,
                 containerInfo, result, calls, first>>

\* the cleanup is over: lines 375-383 after the first one, 425-431 after the
\* second
CleanupDone(p) ==
  /\ UNCHANGED exceptPool
  /\ pc[p] = "cleanupLoop"
  /\ todo[p] = <<>>
  /\ IF phase[p] = 1 /\ ~Reusable(containers[p][1], config[p])
     THEN /\ pc' = [pc EXCEPT ![p] = "create"]
          /\ UNCHANGED <<result, trace, first>>
     ELSE LET info == IF phase[p] = 1 THEN containers[p][1] ELSE containerInfo[p]
          IN  /\ pc' = [pc EXCEPT ![p] = "returned"]
              /\ result' = [result EXCEPT ![p] = info]
              /\ trace' = [trace EXCEPT ![p] = Finished(@, info, runtime)]
              /\ first' = FirstAfter(config[p], "returned", info)
  /\ UNCHANGED <<runtime, nextId, initState, containerPool, config, containers,
                 keepId, todo, phase, containerInfo, lastDelete, env, calls>>

\* lines 396-431: the create request and what follows it
Create(p, outcome) ==
  /\ UNCHANGED exceptPool
  /\ pc[p] = "create"
  /\ nextId <= MaxPreexisting + MaxCreated
  /\ outcome = "ok" \/ env.faults < MaxFaults
  /\ LET body == IF config[p].given THEN config[p]
                 ELSE [given |-> TRUE, image |-> DefaultImage]
         r == ContainerRoute(runtime, nextId, body, outcome)
     IN  /\ runtime' = r.rt
         /\ nextId' = IF nextId \in DOMAIN r.rt THEN nextId + 1 ELSE nextId
         /\ IF ~r.ok
            THEN /\ pc' = [pc EXCEPT ![p] = "rejected"]
                 /\ trace' = [trace EXCEPT ![p] =
                                Finished([@ EXCEPT !.create = "failed"], NoInfo, r.rt)]
                 /\ env' = [env EXCEPT !.faults = @ + 1]
                 /\ first' = FirstAfter(config[p], "rejected", NoInfo)
                 /\ UNCHANGED <<containerPool, containerInfo, keepId, phase, result>>
            ELSE /\ containerInfo' = [containerInfo EXCEPT ![p] = r.body]
                 /\ containerPool' = containerPool \cup {r.body.id}
                 /\ env' = env
                 /\ IF Len(containers[p]) > 0
                    THEN /\ keepId' = [keepId EXCEPT ![p] = r.body.id]
                         /\ phase' = [phase EXCEPT ![p] = 2]
                         /\ pc' = [pc EXCEPT ![p] = "cleanupGetAll"]
                         /\ trace' = [trace EXCEPT ![p].create = "ok"]
                         /\ UNCHANGED <<result, first>>
                    ELSE /\ pc' = [pc EXCEPT ![p] = "returned"]
                         /\ result' = [result EXCEPT ![p] = r.body]
                         /\ trace' = [trace EXCEPT ![p] =
                                        Finished([@ EXCEPT !.create = "ok"], r.body, r.rt)]
                         /\ first' = FirstAfter(config[p], "returned", r.body)
                         /\ UNCHANGED <<keepId, phase>>
  /\ UNCHANGED <<initState, config, containers, todo, lastDelete, calls>>

-----------------------------------------------------------------------------
(* The environment: a running container's main process ends *)

ContainerExits(n) ==
  /\ UNCHANGED exceptPool
  /\ n \in DOMAIN runtime
  /\ runtime[n].status = "Up"
  /\ env.faults < MaxFaults
  /\ runtime' = [runtime EXCEPT ![n].status = "Exited"]
  /\ env' = [env EXCEPT !.faults = @ + 1]
  /\ UNCHANGED <<nextId, initState, containerPool, pc, config, containers, keepId,
                 todo, phase, containerInfo, result, trace, lastDelete, calls, first>>

-----------------------------------------------------------------------------
(* Texts of the repair routine.  A command line is the sequence of its     *)
(* words (the string is the words joined by single spaces) and the number  *)
(* of bash -c "..." wrappers around them; an error message is the set of   *)
(* the phrases it holds; an output is the sequence of its lines, a line    *)
(* the sequence of its words.                                              *)

MaxPhrases == 2         \* phrases of an error message

Phrases == {"No such file or directory", "Permission denied", "command not found",
            "not found", "unexpected token", "syntax error"}

Messages == {m \in SUBSET Phrases : Cardinality(m) <= MaxPhrases}

\* the searched substrings that a phrase or word holds
SubstringsOf(w) ==
  CASE w = "command not found" -> {"command not found", "not found"}
    [] w = "/usr/bin/python3" -> {"python3", "python"}
    [] w = "/usr/bin/python" -> {"python"}
    [] w = "/usr/bin/nodejs" -> {"nodejs", "node"}
    [] w = "/usr/bin/node" -> {"node"}
    [] OTHER -> {w}

\* String.prototype.includes on an error message
Includes(msg, s) == \E phrase \in msg : s \in SubstringsOf(phrase)

\* String.prototype.includes on an output
TextIncludes(text, s) ==
  \E i \in 1..Len(text) : \E j \in 1..Len(text[i]) : s \in SubstringsOf(text[i][j])

Cmd(words) == [wrapped |-> 0, words |-> words]
NoCmd == Cmd(<<>>)

\* the failed commands tried
FailedCommands ==
  {Cmd(<<"cat", "notes.txt">>), Cmd(<<"cat", "'notes.txt'">>), Cmd(<<"ls", "-l">>),
   Cmd(<<"python", "run.py">>), Cmd(<<"python3", "run.py">>), Cmd(<<"node", "app.js">>),
   Cmd(<<"foo", "--version">>), Cmd(<<"sudo", "cat", "notes.txt">>), Cmd(<<"foo">>)}

\* fileName.startsWith('-')
StartsWithDash(w) == w \in {"-l", "--version"}

\* fileName.replace(/["']/g, '')
StripQuotes(w) == IF w = "'notes.txt'" THEN "notes.txt" ELSE w

\* cleanFileName.includes(' '): a word of a command split at its spaces
\* holds none
HasSpace(w) == FALSE

\* where find and which report a name
UploadsPath(w) ==
  CASE w = "notes.txt" -> "/uploads/notes.txt"
    [] w = "run.py" -> "/uploads/run.py"
    [] w = "app.js" -> "/uploads/app.js"
    [] OTHER -> "/uploads/foo"

BinPath(w) ==
  CASE w = "python" -> "/usr/bin/python"
    [] w = "python3" -> "/usr/bin/python3"
    [] w = "node" -> "/usr/bin/node"
    [] OTHER -> "/usr/bin/foo"

\* `bash -c "${command.replace(/"/g, '\\"')}"`
Wrap(cmd) == [cmd EXCEPT !.wrapped = @ + 1]

RECURSIVE ReplaceFirst(_, _, _)
\* String.prototype.replace(word, line): the first occurrence only
ReplaceFirst(words, w, line) ==
  IF words = <<>> THEN <<>>
  ELSE IF Head(words) = w THEN line \o Tail(words)
  ELSE <<Head(words)>> \o ReplaceFirst(Tail(words), w, line)

\* command.replace(/^name(\s)/, `${line}$1`): the first word, when a space
\* follows it
ReplaceLeading(words, name, line) ==
  IF Len(words) >= 2 /\ words[1] = name THEN line \o Tail(words) ELSE words

\* text.trim() is not empty
NonEmpty(text) == text # <<>> /\ text[1] # <<>>

-----------------------------------------------------------------------------
(* POST /api/docker/execute and DockerServiceServer.executeCommand *)

\* run: how the command ends in the container ("ok": exit 0, text its
\* stdout; "fail": a non-zero exit, text its stderr)
ExecuteRoute(rt, containerId, run) ==
  IF containerId = NoId THEN [status |-> 400, success |-> FALSE, output |-> <<>>]
  ELSE IF ~Exists(rt, containerId)
  THEN [status |-> 404, success |-> FALSE, output |-> <<>>]
  ELSE IF run.exit = "ok" THEN [status |-> 200, success |-> TRUE, output |-> run.text]
  ELSE [status |-> 200, success |-> FALSE, output |-> run.text]

\* throws when the response is not ok, returns data.output || '' otherwise
executeCommand(rt, containerId, run) ==
  LET r == ExecuteRoute(rt, containerId, run)
  IN  IF run.exit = "unreachable"
      THEN [threw |-> TRUE, value |-> <<<<"fetch failed">>>>]
      ELSE IF r.status # 200
      THEN [threw |-> TRUE, value |-> <<<<"Error al ejecutar comando:", "status">>>>]
      ELSE [threw |-> FALSE, value |-> r.output]

Unreachable == [exit |-> "unreachable", text |-> <<>>]
Ran(text) == [exit |-> "ok", text |-> text]
Failed(text) == [exit |-> "fail", text |-> text]

FindRuns(w) == {Ran(<<>>), Ran(<<<<UploadsPath(w)>>>>),
                Failed(<<<<"find:", "No such file or directory">>>>), Unreachable}
PythonRuns == {Ran(<<<<"/usr/bin/python">>>>), Ran(<<<<"/usr/bin/python3">>>>),
               Ran(<<<<"No Python found">>>>), Unreachable}
NodeRuns == {Ran(<<<<"/usr/bin/node">>>>), Ran(<<<<"/usr/bin/nodejs">>>>),
             Ran(<<<<"No Node.js found">>>>), Unreachable}
\* docker exec itself fails when the container is not running
ExecFailed == Failed(<<<<"Error", "response", "from", "daemon">>>>)
WhichRuns(w) == {Ran(<<<<BinPath(w)>>>>), Ran(<<<<"Not found">>>>), ExecFailed, Unreachable}
FixedRuns == {Ran(<<<<"done">>>>), Failed(<<<<"bash:", "second error">>>>), Unreachable}

-----------------------------------------------------------------------------
(* shell_fix_command: one action for the code up to each await *)

NoArgs == [container_id |-> NoId, failed_command |-> NoCmd, error_message |-> {}]
NoRun == [exit |-> "none", text |-> <<>>]
NoResult == [pending |-> TRUE]

\* run: how the execution of the fixed command ended; which: how the which
\* lookup ended; lookups, executions: the requests sent so far; threw: a
\* lookup threw
NoFix == [pc |-> "idle", args |-> NoArgs, fixStrategy |-> "unknown",
          fixedCommand |-> NoCmd, result |-> NoResult, run |-> NoRun,
          which |-> NoRun, lookups |-> 0, executions |-> 0, threw |-> FALSE]

FixInit == fix = NoFix

\* the container ids a caller passes: of containers that exist and of one
\* that does not
ContainerIds == {ShortId(n) : n \in 1..(MaxPreexisting + 1)}

\* a variant that tests for the syntax errors before the missing commands
ClassifySyntaxFirst(errorMsg) ==
  IF Includes(errorMsg, "No such file or directory") THEN "file_not_found"
  ELSE IF Includes(errorMsg, "Permission denied") THEN "permission_denied"
  ELSE IF Includes(errorMsg, "unexpected token") \/ Includes(errorMsg, "syntax error")
  THEN "syntax_error"
  ELSE IF Includes(errorMsg, "command not found") \/ Includes(errorMsg, "not found")
  THEN "command_not_found"
  ELSE "unknown"

\* a variant that tests for "Permission denied" first
ClassifyPermissionFirst(errorMsg) ==
  IF Includes(errorMsg, "Permission denied") THEN "permission_denied"
  ELSE IF Includes(errorMsg, "No such file or directory") THEN "file_not_found"
  ELSE IF Includes(errorMsg, "command not found") \/ Includes(errorMsg, "not found")
  THEN "command_not_found"
  ELSE IF Includes(errorMsg, "unexpected token") \/ Includes(errorMsg, "syntax error")
  THEN "syntax_error"
  ELSE "unknown"

\* the chain of tests on the error message
Classify(errorMsg) ==
  IF Includes(errorMsg, "No such file or directory") THEN "file_not_found"
  ELSE IF Includes(errorMsg, "Permission denied") THEN "permission_denied"
  ELSE IF Includes(errorMsg, "command not found") \/ Includes(errorMsg, "not found")
  THEN "command_not_found"
  ELSE IF Includes(errorMsg, "unexpected token") \/ Includes(errorMsg, "syntax error")
  THEN "syntax_error"
  ELSE "unknown"

\* a failed command that is a bash -c "..." line already, as the planner's
\* shell commands can be
WrappedCommands == {Wrap(Cmd(<<"ls", "-l">>))}

\* the arguments tried.  A wrapped command comes with the messages whose
\* rule leaves the words inside the quotes alone
Args == [container_id : ContainerIds, failed_command : FailedCommands,
         error_message : Messages]
        \cup [container_id : ContainerIds, failed_command : WrappedCommands,
              error_message : {m \in Messages :
                                 Classify(m) \in {"unknown", "syntax_error"}}]

\* originalCommand.split(' ').pop() and originalCommand.split(' ')[0]
LastWord(cmd) == IF cmd.words = <<>> THEN "" ELSE cmd.words[Len(cmd.words)]
FirstWord(cmd) == IF cmd.words = <<>> THEN "" ELSE cmd.words[1]

\* a variant that wraps whenever no rule rewrote the command
BeforeExecuteWrapUnchanged(f) ==
  LET originalCommand == f.args.failed_command
  IN  IF f.fixedCommand = originalCommand /\ originalCommand # Wrap(originalCommand)
      THEN [f EXCEPT !.fixStrategy = "general_fallback",
                     !.fixedCommand = Wrap(originalCommand), !.pc = "execute"]
      ELSE [f EXCEPT !.pc = "execute"]

\* the fallback after the rules, then on to the execution
BeforeExecute(f) ==
  LET originalCommand == f.args.failed_command
  IN  IF f.fixStrategy = "unknown" /\ originalCommand # Wrap(originalCommand)
      THEN [f EXCEPT !.fixStrategy = "general_fallback",
                     !.fixedCommand = Wrap(originalCommand), !.pc = "execute"]
      ELSE [f EXCEPT !.pc = "execute"]

\* a variant in which the routine goes on to the execution after a lookup
\* threw
CaughtThenExecutes(f, message) == [f EXCEPT !.pc = "execute", !.threw = TRUE]

\* the outer catch
Caught(f, message) ==
  [f EXCEPT !.pc = "done", !.threw = TRUE,
            !.result = [original_command |-> f.args.failed_command,
                        error |-> message, success |-> FALSE]]

\* the which lookup when no alternative was found
AfterAlternatives(f) ==
  IF f.fixedCommand = f.args.failed_command THEN [f EXCEPT !.pc = "whichCommand"]
  ELSE BeforeExecute(f)

shell_fix_command(args) ==
  /\ UNCHANGED exceptFix
  /\ fix.pc = "idle"
  /\ LET originalCommand == args.failed_command
         fixStrategy == Classify(args.error_message)
         f == [fix EXCEPT !.args = args, !.fixStrategy = fixStrategy,
                          !.fixedCommand = originalCommand]
         fileName == LastWord(originalCommand)
         mainCommand == FirstWord(originalCommand)
     IN  fix' =
           CASE fixStrategy = "file_not_found" ->
                  IF fileName # "" /\ ~StartsWithDash(fileName)
                  THEN [f EXCEPT !.pc = "foundFiles"]
                  ELSE BeforeExecute(f)
             [] fixStrategy = "permission_denied" ->
                  IF ~(Len(originalCommand.words) >= 2 /\ mainCommand = "sudo")
                  THEN BeforeExecute([f EXCEPT !.fixedCommand.words = <<"sudo">> \o @])
                  ELSE BeforeExecute([f EXCEPT !.fixedCommand = Wrap(originalCommand)])
             [] fixStrategy = "command_not_found" ->
                  IF mainCommand \in {"python", "python3"}
                  THEN [f EXCEPT !.pc = "pythonVersions"]
                  ELSE IF mainCommand \in {"node", "npm"}
                  THEN [f EXCEPT !.pc = "nodeCheck"]
                  ELSE AfterAlternatives(f)
             [] fixStrategy = "syntax_error" ->
                  BeforeExecute([f EXCEPT !.fixedCommand = Wrap(originalCommand)])
             [] OTHER -> BeforeExecute(f)

foundFiles ==
  /\ UNCHANGED exceptFix
  /\ fix.pc = "foundFiles"
  /\ LET fileName == LastWord(fix.args.failed_command)
         cleanFileName == StripQuotes(fileName)
     IN  \E run \in FindRuns(cleanFileName) :
           LET r == executeCommand(runtime, fix.args.container_id, run)
               f == [fix EXCEPT !.lookups = @ + 1]
           IN  fix' =
                 IF r.threw THEN Caught(f, r.value)
                 ELSE IF NonEmpty(r.value)
                 THEN BeforeExecute([f EXCEPT !.fixedCommand.words =
                                       ReplaceFirst(@, fileName, r.value[1])])
                 ELSE IF HasSpace(cleanFileName)
                 THEN BeforeExecute([f EXCEPT !.fixedCommand.words =
                                       ReplaceFirst(@, fileName, <<cleanFileName>>)])
                 ELSE [f EXCEPT !.pc = "findAllResult"]

findAllResult ==
  /\ UNCHANGED exceptFix
  /\ fix.pc = "findAllResult"
  /\ LET fileName == LastWord(fix.args.failed_command)
         cleanFileName == StripQuotes(fileName)
     IN  \E run \in FindRuns(cleanFileName) \ {Failed(<<<<"find:", "No such file or directory">>>>)} :
           LET r == executeCommand(runtime, fix.args.container_id, run)
               f == [fix EXCEPT !.lookups = @ + 1]
           IN  fix' =
                 IF r.threw THEN Caught(f, r.value)
                 ELSE IF NonEmpty(r.value)
                 THEN BeforeExecute([f EXCEPT !.fixedCommand.words =
                                       ReplaceFirst(@, fileName, r.value[1])])
                 ELSE BeforeExecute(f)

pythonVersions ==
  /\ UNCHANGED exceptFix
  /\ fix.pc = "pythonVersions"
  /\ \E run \in PythonRuns :
       LET r == executeCommand(runtime, fix.args.container_id, run)
           f == [fix EXCEPT !.lookups = @ + 1]
       IN  fix' =
             IF r.threw THEN Caught(f, r.value)
             ELSE IF TextIncludes(r.value, "python3")
             THEN AfterAlternatives([f EXCEPT !.fixedCommand.words =
                                       ReplaceLeading(@, "python", <<"python3">>)])
             ELSE IF TextIncludes(r.value, "python")
             THEN AfterAlternatives([f EXCEPT !.fixedCommand.words =
                                       ReplaceLeading(@, "python3", <<"python">>)])
             ELSE AfterAlternatives(f)

nodeCheck ==
  /\ UNCHANGED exceptFix
  /\ fix.pc = "nodeCheck"
  /\ \E run \in NodeRuns :
       LET r == executeCommand(runtime, fix.args.container_id, run)
           f == [fix EXCEPT !.lookups = @ + 1]
       IN  fix' =
             IF r.threw THEN Caught(f, r.value)
             ELSE IF TextIncludes(r.value, "nodejs") /\ ~TextIncludes(r.value, "node")
             THEN AfterAlternatives([f EXCEPT !.fixedCommand.words =
                                       ReplaceLeading(@, "node", <<"nodejs">>)])
             ELSE AfterAlternatives(f)

whichCommand ==
  /\ UNCHANGED exceptFix
  /\ fix.pc = "whichCommand"
  /\ LET mainCommand == FirstWord(fix.args.failed_command)
     IN  \E run \in WhichRuns(mainCommand) :
           LET r == executeCommand(runtime, fix.args.container_id, run)
               f == [fix EXCEPT !.lookups = @ + 1, !.which = run]
           IN  fix' =
                 IF r.threw THEN Caught(f, r.value)
                 ELSE IF ~TextIncludes(r.value, "Not found")
                 THEN BeforeExecute([f EXCEPT !.fixedCommand.words =
                                       ReplaceLeading(@, mainCommand, r.value[1])])
                 ELSE BeforeExecute(f)

\* a variant that executes a fixed command that failed a second time
fixOutputRetry ==
  /\ UNCHANGED exceptFix
  /\ fix.pc = "execute"
  /\ \E run \in FixedRuns :
       LET r == executeCommand(runtime, fix.args.container_id, run)
       IN  fix' = [fix EXCEPT !.pc = IF run.exit = "ok" \/ fix.executions >= 1
                                    THEN "done" ELSE "execute",
                     !.run = run, !.executions = @ + 1,
                     !.result = [original_command |-> fix.args.failed_command,
                                 fixed_command |-> fix.fixedCommand,
                                 fix_strategy |-> fix.fixStrategy,
                                 success |-> ~r.threw,
                                 output |-> r.value]]

\* the execution of the fixed command, in its own try
fixOutput ==
  /\ UNCHANGED exceptFix
  /\ fix.pc = "execute"
  /\ \E run \in FixedRuns :
       LET r == executeCommand(runtime, fix.args.container_id, run)
       IN  fix' = [fix EXCEPT !.pc = "done", !.run = run, !.executions = @ + 1,
                     !.result = [original_command |-> fix.args.failed_command,
                                 fixed_command |-> fix.fixedCommand,
                                 fix_strategy |-> fix.fixStrategy,
                                 success |-> ~r.threw,
                                 output |-> r.value]]

-----------------------------------------------------------------------------
(* generateAgenticPlan: one action for the code up to each await.  The     *)
(* phases are the steps the function logs (PASO 1 to PASO 5) and the two   *)
(* blocks of its Docker part.                                              *)

MaxCommands == 5        \* docker commands of a response
MaxQueries == 1         \* search queries of a response

\* failedCommands.length > 3
FailureThreshold == 3

PhaseOrder == <<"IdentifyingFiles", "AnalyzingFiles", "EvaluatingExternalNeeds",
                "SearchingExternally", "PreparingContainer", "RunningDockerCommands",
                "GeneratingPlan", "Done">>

\* the files a user attaches, and a name only the model's answer holds
InputFiles == {"run.py", "notes.txt"}
OtherFile == "other.md"

EndsWithPy(file) == file = "run.py"

\* the fallback plan of agenticPlanningFlow's catch
DegradedPlan ==
  [plan |-> "Error al generar el plan", pasos |-> 1,
   requiereInfoExterna |-> FALSE, requiereAnalisisArchivos |-> FALSE]

\* the plan generateAgenticPlan builds from the detailed plan
BuiltPlan(p, pasos) ==
  [plan |-> "detailedPlan.plan", pasos |-> pasos,
   requiereInfoExterna |-> p.needsExternalInfo,
   requiereAnalisisArchivos |-> p.filesToAnalyze # {}]

NoPlan == [plan |-> "", pasos |-> 0,
           requiereInfoExterna |-> FALSE, requiereAnalisisArchivos |-> FALSE]

\* phases: the phases entered so far (history); container: what
\* getAvailableContainer returned (history); total, index: the length of
\* commandsToExecute and the candidates taken from it; failed, succeeded:
\* the candidates that ended with an error or a non-zero exit, and with exit
\* 0 (history); planCalls: the calls of createDetailedPlan (history);
\* outcome: how the call ended
NoPlanner ==
  [pc |-> "idle", phases |-> <<>>, fileNames |-> {}, filesToAnalyze |-> {},
   needsExternalInfo |-> FALSE, queries |-> 0, needsDockerCommands |-> FALSE,
   commands |-> 0, mentionsPython |-> FALSE, containerId |-> NoId,
   container |-> NoInfo,
   total |-> 0, index |-> 0,
   failedCommands |-> 0, executedSuccessfully |-> 0,
   failed |-> 0, succeeded |-> 0,
   planCalls |-> 0,
   planThrew |-> FALSE, outcome |-> "pending", result |-> NoPlan]

Enter(p, name) == [p EXCEPT !.phases = Append(@, name)]

\* the candidate commands: one that names no uploaded file, one that names
\* one, one that names "code (1).py"
Kinds == {"plain", "file", "code (1).py"}

CandidateRuns == {Ran(<<<<"done">>>>),
                  Failed(<<<<"cat:", "No such file or directory">>>>),
                  Failed(<<<<"bash:", "command not found">>>>),
                  Unreachable}

\* PASO 5: the request for the detailed plan
GeneratePlan(p) ==
  [Enter(p, "GeneratingPlan") EXCEPT !.pc = "createDetailedPlan",
                                     !.planCalls = @ + 1]

\* a TypeError outside every try block rejects the promise of the call
Aborted(p) == [p EXCEPT !.pc = "done", !.outcome = "aborted"]

\* after the for loop: the diagnostics when no command succeeded
AfterLoop(p) ==
  IF p.executedSuccessfully = 0 /\ p.total > 0
  THEN [p EXCEPT !.pc = "diagnostics"]
  ELSE GeneratePlan(p)

\* the test at the head of the for loop
TooManyFailed(p) == p.failedCommands > FailureThreshold /\ p.executedSuccessfully = 0

\* the head of the for loop: the next candidate is sent to the executor
NextCandidate(p) ==
  IF p.index >= p.total \/ TooManyFailed(p) THEN AfterLoop(p)
  ELSE [p EXCEPT !.index = @ + 1, !.pc = "output"]

\* the commands to execute: the suggested commands for a Python file join
\* a list of fewer than 2
CommandsToExecute(p) ==
  IF /\ \E file \in p.filesToAnalyze : EndsWithPy(file)
     /\ ~p.mentionsPython
     /\ p.commands < 2
  THEN p.commands + 2
  ELSE p.commands

\* after the upload: the commands the model asked for
AfterUpload(p) ==
  IF p.needsDockerCommands
  THEN [Enter(p, "RunningDockerCommands") EXCEPT !.total = CommandsToExecute(p),
                                                  !.pc = "recon"]
  ELSE GeneratePlan(p)

\* a variant that evaluates the external needs again when there is nothing
\* for a container to do
AfterSearchReevaluates(p) ==
  IF p.filesToAnalyze # {} \/ p.needsDockerCommands
  THEN [Enter(p, "PreparingContainer") EXCEPT !.pc = "getAvailableContainer"]
  ELSE IF Len(p.phases) < Len(PhaseOrder)
  THEN [Enter(p, "EvaluatingExternalNeeds") EXCEPT !.pc = "externalInfoResponse"]
  ELSE GeneratePlan(p)

\* after the searches: a container when there are files or commands
AfterSearch(p) ==
  IF p.filesToAnalyze # {} \/ p.needsDockerCommands
  THEN [Enter(p, "PreparingContainer") EXCEPT !.pc = "getAvailableContainer"]
  ELSE GeneratePlan(p)

generateAgenticPlan(fileNames) ==
  /\ UNCHANGED exceptPlanner
  /\ planner.pc = "idle"
  /\ planner' = [Enter(Enter(planner, "IdentifyingFiles"), "AnalyzingFiles")
                   EXCEPT !.fileNames = fileNames, !.pc = "filesRelevanceResponse"]

\* getFileRelevanceAnalysis answers (an empty list when it failed).  The
\* answer is the parsed value as it came: it may hold no filesToAnalyze, and
\* line 447 then reads the length of undefined when files were given
filesRelevanceResponse(hasFilesToAnalyze) ==
  /\ UNCHANGED exceptPlanner
  /\ planner.pc = "filesRelevanceResponse"
  /\ IF hasFilesToAnalyze
     THEN \E named \in SUBSET (InputFiles \cup {OtherFile}) :
            planner' = [Enter(planner, "EvaluatingExternalNeeds")
                          EXCEPT !.filesToAnalyze = named \cap planner.fileNames,
                                 !.pc = "externalInfoResponse"]
     ELSE planner' =
            IF planner.fileNames # {} THEN Aborted(planner)
            ELSE [Enter(planner, "EvaluatingExternalNeeds")
                    EXCEPT !.pc = "externalInfoResponse"]

\* getExternalInfoNeeds answers (nothing needed when it failed).  The answer
\* is the parsed value as it came: it may hold no searchQueries, and the for
\* loop of line 472 then iterates over undefined
externalInfoResponse(hasSearchQueries) ==
  /\ UNCHANGED exceptPlanner
  /\ planner.pc = "externalInfoResponse"
  /\ \E needsExternalInfo, needsDockerCommands, mentionsPython \in BOOLEAN :
       \E queries \in 0..MaxQueries, commands \in 0..MaxCommands :
         /\ mentionsPython => commands > 0
         /\ ~hasSearchQueries => queries = 0
         /\ LET p == [planner EXCEPT !.needsExternalInfo = needsExternalInfo,
                                     !.queries = queries,
                                     !.needsDockerCommands = needsDockerCommands,
                                     !.commands = commands,
                                     !.mentionsPython = mentionsPython]
            IN  planner' =
                  IF ~needsExternalInfo THEN AfterSearch(p)
                  ELSE IF ~hasSearchQueries
                  THEN Aborted(Enter(p, "SearchingExternally"))
                  ELSE IF queries = 0 THEN AfterSearch(Enter(p, "SearchingExternally"))
                  ELSE [Enter(p, "SearchingExternally") EXCEPT !.pc = "simulateWebSearch"]

\* one search returns or throws; the error is logged
simulateWebSearch(ok) ==
  /\ UNCHANGED exceptPlanner
  /\ planner.pc = "simulateWebSearch"
  /\ LET p == [planner EXCEPT !.queries = @ - 1]
     IN  planner' = IF p.queries = 0 THEN AfterSearch(p) ELSE p

\* containerId = container.id, then the upload when there are files
WithContainer(p, container) ==
  LET q == [p EXCEPT !.containerId = container.id, !.container = container]
  IN  IF q.filesToAnalyze # {} THEN [q EXCEPT !.pc = "uploadFiles"]
      ELSE AfterUpload(q)

\* DockerServiceServer.getAvailableContainer, lines 9-25: the listing
\* answers; the first container listed is returned, a failure is thrown and
\* logged by the planner
getAvailableContainer(ok) ==
  /\ UNCHANGED exceptPlanner
  /\ planner.pc = "getAvailableContainer"
  /\ LET r == ContainersRoute(runtime, ok)
     IN  planner' =
           IF ~r.ok THEN GeneratePlan(planner)
           ELSE IF Len(r.body) > 0 THEN WithContainer(planner, r.body[1])
           ELSE [planner EXCEPT !.pc = "createResponse"]

\* DockerServiceServer.getAvailableContainer, lines 28-41: no container was
\* listed and the initialize endpoint answers
createResponse(outcome) ==
  /\ planner.pc = "createResponse"
  /\ LET r == InitializeRoute(runtime, nextId, outcome, TRUE,
                              [x \in DOMAIN runtime |-> "removed"])
     IN  /\ runtime' = r.rt
         /\ nextId' = IF nextId \in DOMAIN r.rt THEN nextId + 1 ELSE nextId
         /\ planner' = IF r.ok THEN WithContainer(planner, r.body)
                       ELSE GeneratePlan(planner)
  /\ UNCHANGED <<initState, containerPool, pc, config, containers, keepId, todo,
                 phase, containerInfo, result, trace, lastDelete, env, calls, first,
                 fix, structured, indicator, execution, cleanupOthers, taskDetails,
                 sequence>>

\* the upload, the listing and the reading of the uploaded files
uploadFiles(ok) ==
  /\ UNCHANGED exceptPlanner
  /\ planner.pc = "uploadFiles"
  /\ planner' = AfterUpload(planner)

\* ls -la /uploads and pwd, in one try
recon(ok) ==
  /\ UNCHANGED exceptPlanner
  /\ planner.pc = "recon"
  /\ planner' = NextCandidate(planner)

\* the executor answers for a candidate command
output(kind, run) ==
  /\ UNCHANGED exceptPlanner
  /\ planner.pc = "output"
  /\ LET r == executeCommand(runtime, planner.containerId, run)
         p == [planner EXCEPT
                 !.failed = IF r.threw \/ run.exit # "ok" THEN @ + 1 ELSE @,
                 !.succeeded = IF r.threw \/ run.exit # "ok" THEN @ ELSE @ + 1]
     IN  planner' =
           IF r.threw
           THEN LET q == [p EXCEPT !.failedCommands = @ + 1]
                IN  IF kind = "code (1).py" THEN [q EXCEPT !.pc = "altLsResult"]
                    ELSE NextCandidate(q)
           ELSE LET q == [p EXCEPT !.executedSuccessfully = @ + 1]
                IN  IF TextIncludes(r.value, "No such file or directory") /\ kind = "file"
                    THEN [q EXCEPT !.pc = "findResult"]
                    ELSE NextCandidate(q)

\* find / -name <file> returns or throws; the error is logged
findResult(ok) ==
  /\ UNCHANGED exceptPlanner
  /\ planner.pc = "findResult"
  /\ planner' = NextCandidate(planner)

\* ls /uploads before the alternative command
altLsResult(ok) ==
  /\ UNCHANGED exceptPlanner
  /\ planner.pc = "altLsResult"
  /\ planner' = IF ok THEN [planner EXCEPT !.pc = "altOutput"]
                ELSE NextCandidate(planner)

\* the alternative command returns or throws
altOutput(ok) ==
  /\ UNCHANGED exceptPlanner
  /\ planner.pc = "altOutput"
  /\ planner' = NextCandidate(planner)

\* the diagnostic commands, in one try
diagnostics(ok) ==
  /\ UNCHANGED exceptPlanner
  /\ planner.pc = "diagnostics"
  /\ planner' = GeneratePlan(planner)

\* createDetailedPlan returns the detailed plan or throws
createDetailedPlan(ok, pasos) ==
  /\ UNCHANGED exceptPlanner
  /\ planner.pc = "createDetailedPlan"
  /\ planner' =
       IF ok
       THEN [Enter(planner, "Done") EXCEPT !.pc = "done", !.outcome = "returned",
                                           !.result = BuiltPlan(planner, pasos)]
       ELSE [planner EXCEPT !.pc = "done", !.outcome = "rejected", !.planThrew = TRUE]

-----------------------------------------------------------------------------
(* GeminiService.getStructuredResponse.  A JSON value is its type and, for *)
(* an object, the types of its properties; a response text is the form in  *)
(* which it holds a JSON value, if it holds one.                            *)

MaxProperties == 2      \* properties of an object in a response

\* private maxRetries: number = 3
maxRetries == 3

\* the types of the values of a response, and of the properties of its objects
ValueTypes == {"string", "boolean", "array", "number", "null"}
PropertyTypes == {"string", "array"}

\* the schemas the service requests
DetailedPlanSchema ==
  [type |-> "object",
   properties |-> [plan |-> "string", pasos |-> "array", detallesVisualizacion |-> "string"],
   required |-> {"plan", "pasos"}]

FileRelevanceSchema ==
  [type |-> "object", properties |-> [filesToAnalyze |-> "array"], required |-> {}]

ExternalInfoSchema ==
  [type |-> "object",
   properties |-> [needsExternalInfo |-> "boolean", searchQueries |-> "array",
                   needsDockerCommands |-> "boolean", dockerCommands |-> "array"],
   required |-> {}]

Schemas == {DetailedPlanSchema, FileRelevanceSchema, ExternalInfoSchema}

\* the property names a response may hold: those of the schemas and another
Keys == UNION {DOMAIN schema.properties : schema \in Schemas} \cup {"comment"}

Scalar(type) == [type |-> type, props |-> <<>>]
Object(props) == [type |-> "object", props |-> props]

Objects ==
  {Object(f) : f \in UNION {[S -> PropertyTypes] :
                              S \in {T \in SUBSET Keys : Cardinality(T) <= MaxProperties}}}

JsonValues == {Scalar(type) : type \in ValueTypes} \cup Objects

\* the response texts: a JSON document, prose around a fenced block, prose
\* around an object or an array, broken JSON with "key": value pairs, prose
Texts ==
  {[form |-> "json", value |-> v] : v \in JsonValues}
    \cup {[form |-> "fenced", value |-> v] : v \in JsonValues}
    \cup {[form |-> "embedded", value |-> v] : v \in Objects \cup {Scalar("array")}}
    \cup {[form |-> "pairs", value |-> v] : v \in Objects}
    \cup {[form |-> "prose", value |-> Scalar("null")]}

\* JSON.parse(text): the value, or a SyntaxError
JsonParse(text) ==
  IF text.form = "json" THEN [threw |-> FALSE, value |-> text.value]
  ELSE [threw |-> TRUE, value |-> Scalar("null")]

\* the value of a JavaScript condition (numbers and strings as found in a
\* response: not 0, not empty)
Truthy(v) == v.type \notin {"null"}

extractJsonFromText(text) ==
  IF ~JsonParse(text).threw THEN JsonParse(text).value
  ELSE IF text.form = "fenced" THEN text.value
  ELSE IF text.form = "embedded" THEN text.value
  ELSE IF text.form = "pairs" /\ DOMAIN text.value.props # {} THEN text.value
  ELSE Scalar("null")

\* the value createBasicResponseFromSchema gives a property of a type
BasicValue(type) ==
  CASE type = "string" -> "string"
    [] type = "boolean" -> "boolean"
    [] type = "array" -> "array"
    [] type = "object" -> "object"
    [] OTHER -> "null"

createBasicResponseFromSchema(schema, text) ==
  Object([key \in DOMAIN schema.properties |-> BasicValue(schema.properties[key])])

\* what the operation of getStructuredResponse returns for a response text
StructuredValue(schema, text) ==
  IF ~JsonParse(text).threw THEN JsonParse(text).value
  ELSE IF Truthy(extractJsonFromText(text)) THEN extractJsonFromText(text)
  ELSE createBasicResponseFromSchema(schema, text)

\* the message of a rejection: which of the substrings that handleApiError
\* and withRetry look for it holds
ApiErrors == SUBSET {"403", "429", "quota", "500"}

\* handleApiError: the processed error, as its text and the substrings its
\* message holds.  The two fixed messages hold "403" and nothing; the third
\* ends with the original message
handleApiError(error) ==
  IF "403" \in error THEN [text |-> "Error de autorizacion (403)", holds |-> {"403"}]
  ELSE IF "429" \in error \/ "quota" \in error
  THEN [text |-> "Error de cuota excedida", holds |-> {}]
  ELSE [text |-> "Error en la llamada a la API de Gemini", holds |-> error]

NoError == [text |-> "none", holds |-> {}]

\* a variant that retries after every rejection
RetryableAlways(lastError) == TRUE

\* lastError.message.includes('429') || lastError.message.includes('500')
Retryable(lastError) == "429" \in lastError.holds \/ "500" \in lastError.holds

\* attempt, lastError: the locals of withRetry; runs: the times the
\* operation was started (history); thrown: what withRetry threw
NoStructured == [pc |-> "idle", schema |-> FileRelevanceSchema, attempt |-> 0,
                 runs |-> 0, lastError |-> NoError, thrown |-> NoError,
                 text |-> [form |-> "none", value |-> Scalar("null")],
                 value |-> Scalar("null")]

getStructuredResponse(schema) ==
  /\ UNCHANGED exceptStructured
  /\ structured.pc = "idle"
  /\ structured' = [structured EXCEPT !.schema = schema, !.pc = "generateContent",
                                      !.runs = 1]

\* model.generateContent answers with a text
responseText(text) ==
  /\ UNCHANGED exceptStructured
  /\ structured.pc = "generateContent"
  /\ structured' = [structured EXCEPT !.pc = "returned", !.text = text,
                      !.value = StructuredValue(structured.schema, text)]

\* model.generateContent rejects: withRetry throws the processed error, or
\* waits before the next attempt, or leaves the loop after the last one
generateContentRejects(error) ==
  /\ UNCHANGED exceptStructured
  /\ structured.pc = "generateContent"
  /\ LET lastError == handleApiError(error)
         s == [structured EXCEPT !.lastError = lastError]
     IN  structured' =
           IF ~Retryable(lastError)
           THEN [s EXCEPT !.pc = "threw", !.thrown = lastError]
           ELSE IF s.attempt < maxRetries - 1
           THEN [s EXCEPT !.pc = "delay"]
           ELSE [s EXCEPT !.attempt = @ + 1, !.pc = "threw", !.thrown = lastError]

\* the timer of the delay fires: attempt++ and the operation runs again
retryDelay ==
  /\ UNCHANGED exceptStructured
  /\ structured.pc = "delay"
  /\ structured' = [structured EXCEPT !.attempt = @ + 1, !.runs = @ + 1,
                                      !.pc = "generateContent"]

-----------------------------------------------------------------------------
(* StatusIndicator: the effect with the dependencies error, retryCount and *)
(* loading.  Time is counted in milliseconds and passes in steps of one    *)
(* base delay.                                                             *)

MaxRetryCount == 5      \* consecutive failures of the status fetch
MaxInFlight == 2        \* status fetches waiting for their answer

\* Math.min(1000 * Math.pow(2, retryCount), 30000) and setInterval(.., 10000)
RetryBase == 1000
RetryCap == 30000
PollInterval == 10000

RECURSIVE Pow2(_)
Pow2(n) == IF n = 0 THEN 1 ELSE 2 * Pow2(n - 1)

Min(a, b) == IF a <= b THEN a ELSE b

RetryDelay(retryCount) == Min(RetryBase * Pow2(retryCount), RetryCap)

NoTimer == [kind |-> "none", due |-> 0]

\* inFlight: the fetches not yet answered; since: the time since the last
\* failure (history, counted up to the cap); issued: for the last fetch
\* issued, the consecutive failures before it and the time since the last
\* of them (history)
NoIndicator ==
  [mounted |-> FALSE, error |-> FALSE, retryCount |-> 0, loading |-> TRUE,
   timer |-> NoTimer, inFlight |-> 0, since |-> 0,
   issued |-> [failures |-> 0, waited |-> 0]]

\* fetchStatus() is called: a request leaves
FetchStatus(s) ==
  [s EXCEPT !.inFlight = @ + 1,
            !.issued = [failures |-> s.retryCount, waited |-> s.since]]

\* the body of the effect, after the cleanup of the run before it
RunEffect(s) ==
  IF s.error
  THEN [FetchStatus(s) EXCEPT !.timer = [kind |-> "retry", due |-> RetryDelay(s.retryCount)]]
  ELSE [FetchStatus(s) EXCEPT !.timer = [kind |-> "interval", due |-> PollInterval]]

\* the render after the state updates of fetchStatus: the effect runs again
\* when one of its dependencies changed
Render(old, new) ==
  IF <<old.error, old.retryCount, old.loading>> # <<new.error, new.retryCount, new.loading>>
  THEN RunEffect(new)
  ELSE new

Mount ==
  /\ UNCHANGED exceptIndicator
  /\ ~indicator.mounted
  /\ indicator' = RunEffect([indicator EXCEPT !.mounted = TRUE])

\* getContainerStatus resolves
FetchSucceeds ==
  /\ UNCHANGED exceptIndicator
  /\ indicator.inFlight > 0
  /\ LET answered == [indicator EXCEPT !.inFlight = @ - 1]
     IN  indicator' = Render(answered, [answered EXCEPT !.error = FALSE, !.retryCount = 0,
                                                        !.loading = FALSE, !.since = 0])

\* getContainerStatus rejects
FetchFails ==
  /\ UNCHANGED exceptIndicator
  /\ indicator.inFlight > 0
  /\ indicator.retryCount < MaxRetryCount
  /\ LET answered == [indicator EXCEPT !.inFlight = @ - 1]
     IN  indicator' = Render(answered, [answered EXCEPT !.error = TRUE, !.retryCount = @ + 1,
                                                        !.loading = FALSE, !.since = 0])

\* time passes while no timer is due
Tick ==
  /\ UNCHANGED exceptIndicator
  /\ indicator.mounted
  /\ indicator.timer.kind = "none" \/ indicator.timer.due > 0
  /\ indicator.since < RetryCap \/ indicator.timer.due > 0
  /\ indicator' = [indicator EXCEPT
                     !.since = Min(@ + RetryBase, RetryCap),
                     !.timer.due = IF @ >= RetryBase THEN @ - RetryBase ELSE 0]

\* the timeout or the interval fires and calls fetchStatus
TimerFires ==
  /\ UNCHANGED exceptIndicator
  /\ indicator.timer.kind # "none"
  /\ indicator.timer.due = 0
  /\ indicator.inFlight < MaxInFlight
  /\ indicator' =
       [FetchStatus(indicator) EXCEPT
          !.timer = IF indicator.timer.kind = "interval"
                    THEN [kind |-> "interval", due |-> PollInterval]
                    ELSE NoTimer]

-----------------------------------------------------------------------------
(* useDockerExecution.execute: the call, the request DockerService sends   *)
(* for it and the timer of its timeout                                     *)

\* DockerService.executeCommand: throws when the response is not ok or
\* reports success false
ClientExecuteCommand(rt, containerId, run) ==
  LET r == ExecuteRoute(rt, containerId, run)
  IN  IF run.exit = "unreachable"
      THEN [threw |-> TRUE, value |-> <<<<"fetch failed">>>>]
      ELSE IF r.status # 200 \/ ~r.success
      THEN [threw |-> TRUE, value |-> r.output]
      ELSE [threw |-> FALSE, value |-> r.output]

\* options.timeout: absent (0) or a number of milliseconds
Timeouts == {0, 5000}

ExecutionOptions ==
  [containerId : {NoId} \cup ContainerIds, timeout : Timeouts]

ExecutionRuns == {Ran(<<<<"done">>>>), Failed(<<<<"bash:", "command not found">>>>),
                  Unreachable}

NoExecutionResult == [success |-> FALSE, stdout |-> <<>>, error |-> "none"]

\* request: the fetch of executeCommand ("none", "sent", "completed",
\* "failed", "aborted"); timer: the setTimeout of the timeout ("none",
\* "armed", "fired"); timedOut: the timeout rejected the race (history)
NoExecution ==
  [pc |-> "idle", options |-> [containerId |-> NoId, timeout |-> 0],
   targetContainerId |-> NoId, request |-> "none", timer |-> "none",
   timedOut |-> FALSE, result |-> NoExecutionResult]

\* the command is sent, beside the timer when a timeout is given
StartCommand(e, id) ==
  [e EXCEPT !.targetContainerId = id, !.request = "sent", !.pc = "stdout",
            !.timer = IF e.options.timeout # 0 THEN "armed" ELSE "none"]

\* the catch of execute
ErrorResult(e, error) ==
  [e EXCEPT !.pc = "returned",
            !.result = [success |-> FALSE, stdout |-> <<>>, error |-> error]]

\* execute up to its first await
Called(execution_, options) ==
  LET e == [execution_ EXCEPT !.options = options]
  IN  IF options.containerId # NoId
      THEN StartCommand(e, options.containerId)
      ELSE [e EXCEPT !.pc = "getContainer"]

execute(options) ==
  /\ UNCHANGED exceptExecution
  /\ execution.pc = "idle"
  /\ execution' = Called(execution, options)

\* getContainer returns a container or throws
getContainer(ok) ==
  /\ UNCHANGED exceptExecution
  /\ execution.pc = "getContainer"
  /\ execution' = IF ok THEN StartCommand(execution, FullId(1))
                  ELSE ErrorResult(execution, "getContainer")

\* the request of executeCommand settles, before or after execute returned
stdout(run) ==
  /\ UNCHANGED exceptExecution
  /\ execution.request = "sent"
  /\ LET r == ClientExecuteCommand(runtime, execution.targetContainerId, run)
         e == [execution EXCEPT !.request = IF r.threw THEN "failed" ELSE "completed"]
     IN  execution' =
           IF execution.pc # "stdout" THEN e
           ELSE IF r.threw THEN ErrorResult(e, "executeCommand")
           ELSE [e EXCEPT !.pc = "returned",
                          !.result = [success |-> TRUE, stdout |-> r.value,
                                      error |-> "none"]]

\* a variant in which the timeout aborts the request
timeoutPromiseAborts ==
  /\ UNCHANGED exceptExecution
  /\ execution.timer = "armed"
  /\ LET e == [execution EXCEPT !.timer = "fired"]
     IN  execution' =
           IF execution.pc # "stdout" THEN e
           ELSE [ErrorResult(e, "Timeout al ejecutar el comando")
                   EXCEPT !.timedOut = TRUE, !.request = "aborted"]

\* the timer fires: timeoutPromise rejects, which ends the race if it is
\* still open
timeoutPromise ==
  /\ UNCHANGED exceptExecution
  /\ execution.timer = "armed"
  /\ LET e == [execution EXCEPT !.timer = "fired"]
     IN  execution' =
           IF execution.pc # "stdout" THEN e
           ELSE [ErrorResult(e, "Timeout al ejecutar el comando")
                   EXCEPT !.timedOut = TRUE]

-----------------------------------------------------------------------------
(* useDockerExecution.executeSequence: one call of execute per command.    *)
(* execute returns a result on every path (its catch builds one), so the    *)
(* catch of executeSequence has nothing to catch.                          *)

MaxSequence == 3        \* commands of one sequence

\* results: what the call pushed, each with the number of its command;
\* executed: the numbers of the commands handed to execute (history)
NoSequence ==
  [pc |-> "idle", commands |-> 0,
   options |-> [containerId |-> NoId, timeout |-> 0],
   results |-> <<>>, executed |-> <<>>]

\* a variant that goes on after a failed command
BreakNever(res) == FALSE

\* if (!result.success) break
Break(res) == ~res.success

\* the containerId of the next execute: the one of the last result when it
\* succeeded
NextOptions(s) ==
  [s.options EXCEPT !.containerId =
     IF Len(s.results) > 0 /\ s.results[Len(s.results)].success
     THEN s.results[Len(s.results)].containerId
     ELSE s.options.containerId]

\* the head of the for loop: the next command goes to execute, or the
\* results are returned
Iterate(s, e) ==
  IF Len(s.results) > 0 /\ Break(s.results[Len(s.results)])
  THEN [s |-> [s EXCEPT !.pc = "returned"], e |-> e]
  ELSE IF Len(s.executed) >= s.commands
  THEN [s |-> [s EXCEPT !.pc = "returned"], e |-> e]
  ELSE [s |-> [s EXCEPT !.pc = "execute",
                        !.executed = Append(@, Len(s.executed) + 1)],
        e |-> Called(e, NextOptions(s))]

executeSequence(commands, options) ==
  /\ UNCHANGED exceptSequence
  /\ sequence.pc = "idle"
  /\ execution.pc = "idle"
  /\ LET next == Iterate([sequence EXCEPT !.commands = commands,
                                           !.options = options], execution)
     IN  /\ sequence' = next.s
         /\ execution' = next.e

\* execute returned: results.push(result), then the test and the next turn
\* of the loop.  A failed result holds options.containerId or the hook's
\* state, which nothing reads
executeResult ==
  /\ UNCHANGED exceptSequence
  /\ sequence.pc = "execute"
  /\ execution.pc = "returned"
  /\ LET res == [command |-> sequence.executed[Len(sequence.executed)],
                 success |-> execution.result.success,
                 containerId |-> IF execution.result.success
                                 THEN execution.targetContainerId
                                 ELSE execution.options.containerId]
         next == Iterate([sequence EXCEPT !.results = Append(@, res)], execution)
     IN  /\ sequence' = next.s
         /\ execution' = next.e

-----------------------------------------------------------------------------
(* POST /api/docker/cleanup-others: the handler runs its docker commands    *)
(* with execSync, so one request is one step                               *)

\* name.includes('codeai') || image.includes('codeai')
IsApplication(c) == c.image \in Images

\* the containers of the listing the handler goes on to remove:
\* an application container whose listed id !== keepContainerId
OthersToClean(rt, keepContainerId) ==
  SelectSeq(PsLines(rt, DOMAIN rt),
            LAMBDA c : IsApplication(c) /\ c.id # keepContainerId)

Numbers(list) == {Resolve(list[i].id) : i \in 1..Len(list)}

\* what one docker stop followed by one docker rm does to one container
IndividualOutcomes == {"removed", "stopFailed", "rmFailed"}

\* the for loop of the fallback: each container on its own, an error is
\* recorded and the loop goes on
AfterSequential(rt, targets, each) ==
  [x \in {y \in DOMAIN rt : ~(y \in targets /\ each[y] = "removed")} |->
     IF x \in targets /\ each[x] = "rmFailed"
     THEN [rt[x] EXCEPT !.status = "Exited"] ELSE rt[x]]

NoCleanupOthers ==
  [status |-> 0, keepContainerId |-> NoId, before |-> <<>>, targets |-> <<>>,
   results |-> <<>>, warning |-> FALSE]

\* listOk: the docker ps; left: what the batch docker stop / docker rm did
\* to each target; each: what the fallback did to each target
CleanupOthersRoute(rt, keepContainerId, listOk, left, each) ==
  LET others == OthersToClean(rt, keepContainerId)
      targets == Numbers(others)
      batch == AfterBatch(rt, [x \in DOMAIN rt |->
                                 IF x \in targets THEN left[x] ELSE "untouched"])
      answer == [status |-> 200, keepContainerId |-> keepContainerId, before |-> rt,
                 targets |-> others, results |-> <<>>, warning |-> FALSE]
  IN  IF keepContainerId = NoId
      THEN [rt |-> rt, body |-> [answer EXCEPT !.status = 400, !.targets = <<>>]]
      ELSE IF ~listOk
      THEN [rt |-> rt, body |-> [answer EXCEPT !.status = 500, !.targets = <<>>]]
      ELSE IF Len(others) = 0 THEN [rt |-> rt, body |-> answer]
      ELSE IF \A x \in targets : left[x] = "removed"
      THEN [rt |-> batch,
            body |-> [answer EXCEPT !.results =
                        [i \in 1..Len(others) |->
                           [id |-> others[i].id, status |-> "removed"]]]]
      ELSE [rt |-> AfterSequential(batch, targets, each),
            body |-> [answer EXCEPT
                        !.warning = TRUE,
                        !.results =
                          [i \in 1..Len(others) |->
                             [id |-> others[i].id,
                              status |-> IF each[Resolve(others[i].id)] = "removed"
                                         THEN "removed" ELSE "error"]]]]

\* the ids a client may send: none, or the full or the short id of a container
KeepIds == {NoId} \cup {FullId(n) : n \in 1..MaxPreexisting}
                  \cup {ShortId(n) : n \in 1..MaxPreexisting}

CleanupOthers(keepContainerId, listOk, left, each) ==
  /\ UNCHANGED exceptCleanupOthers
  /\ LET r == CleanupOthersRoute(runtime, keepContainerId, listOk, left, each)
     IN  /\ runtime' = r.rt
         /\ cleanupOthers' = r.body

-----------------------------------------------------------------------------
(* TaskDetails: one mounted component for one task.  A handler runs to its  *)
(* await, React renders and runs the effects whose dependencies changed.   *)

MaxRequests == 2        \* handleExecuteStep requests in flight together
MaxPlan == 2            \* steps the plan of the task has left

\* let maxRetries = 5 of handleAutoContinue
MaxAutoRetries == 5

\* what the backend answers to executeStep: the fields the component reads
StepResults == [status : {"success", "error", "waiting_for_input"},
                next_step : BOOLEAN, task_status : {"in_progress", "completed"}]

NoStepResult == [status |-> "none", next_step |-> FALSE, task_status |-> "none"]

\* the request rejected
Rejected == [status |-> "rejected", next_step |-> FALSE, task_status |-> "none"]

\* a step was run and the plan has more steps
StepDone(r) == r.status = "success" /\ r.next_step /\ r.task_status # "completed"

\* the backend works through the plan of the task: the steps it has left, or
\* a backend that goes on answering with a next step for ever
Plans == [left : 0..MaxPlan, endless : BOOLEAN]

Answers(plan) ==
  {r \in StepResults \cup {Rejected} : StepDone(r) => (plan.endless \/ plan.left > 0)}

PlanAfter(plan, r) ==
  IF StepDone(r) /\ ~plan.endless THEN [plan EXCEPT !.left = @ - 1] ELSE plan

\* pending: the requests of handleExecuteStep in flight; timer: the
\* setTimeout of the auto-continue effect is armed; loop: the while loop of
\* handleAutoContinue ("awaiting": its request is in flight), the res it
\* got last and why it stopped
NoTaskDetails ==
  [task |-> FALSE, executionStatus |-> "idle", planAccepted |-> FALSE,
   autoExecuteEnabled |-> FALSE, lastResult |-> NoStepResult, timer |-> FALSE,
   pending |-> 0,
   loop |-> [pc |-> "idle", retryCount |-> 0, last |-> NoStepResult,
             stopped |-> "no", status |-> "idle"],
   plan |-> [left |-> 0, endless |-> FALSE]]

\* the executeStep requests in flight
RequestsInFlight(t) == t.pending + (IF t.loop.pc = "awaiting" THEN 1 ELSE 0)

\* handleExecuteStep up to its await
handleExecuteStep(t) ==
  [t EXCEPT !.executionStatus = "executing", !.pending = @ + 1]

\* the effect of lines 51-57
AutoAccept(old, new) ==
  IF /\ <<old.task, old.executionStatus, old.autoExecuteEnabled>>
          # <<new.task, new.executionStatus, new.autoExecuteEnabled>>
     /\ new.task /\ new.executionStatus = "planning" /\ ~new.planAccepted
     /\ new.autoExecuteEnabled
  THEN handleExecuteStep([new EXCEPT !.planAccepted = TRUE])
  ELSE new

\* the effect of lines 60-85: its cleanup clears the timer, then it arms a
\* new one or closes the task
AutoContinue(old, new, appended) ==
  IF appended \/ old.autoExecuteEnabled # new.autoExecuteEnabled
  THEN LET lastResult == new.lastResult
           t == [new EXCEPT !.timer = FALSE]
       IN  IF lastResult = NoStepResult \/ ~new.autoExecuteEnabled THEN t
           ELSE IF /\ lastResult.status = "waiting_for_input"
                   /\ lastResult.next_step
                   /\ lastResult.task_status # "completed"
           THEN [t EXCEPT !.timer = TRUE]
           ELSE IF /\ lastResult.status = "waiting_for_input"
                   /\ lastResult.task_status = "completed"
           THEN [t EXCEPT !.executionStatus = "completed"]
           ELSE t
  ELSE new

\* the render after a handler and the effects it runs
Effects(old, new, appended) == AutoContinue(old, AutoAccept(old, new), appended)

\* lines 98-111: the status after a res
StatusAfter(res) ==
  IF res.status = "waiting_for_input"
  THEN IF ~res.next_step /\ res.task_status = "completed"
       THEN "completed" ELSE "waiting_for_input"
  ELSE IF res.task_status = "completed" THEN "completed"
  ELSE IF res.next_step THEN "planning" ELSE "completed"

\* a variant of the loop that does not count the results still waiting
RetryCountUncounted(retryCount, res) == retryCount

\* lines 170-185: retryCount++ on a res that neither ends the loop nor
\* has another status than waiting_for_input
RetryCountAfter(retryCount, res) ==
  IF /\ res.status # "error"
     /\ ~(res.task_status = "completed" \/ ~res.next_step)
     /\ res.status = "waiting_for_input"
  THEN retryCount + 1 ELSE retryCount

\* lines 170-180: continueExecution after a res
ContinueExecution(res) ==
  /\ res.status # "error"
  /\ ~(res.task_status = "completed" \/ ~res.next_step)

\* the effect of lines 25-48: getTask returned
fetchTask(auto_execute, plan) ==
  /\ UNCHANGED exceptTaskDetails
  /\ ~taskDetails.task
  /\ taskDetails.executionStatus = "idle"
  /\ LET t == [taskDetails EXCEPT !.task = TRUE, !.executionStatus = "planning",
                                  !.autoExecuteEnabled = auto_execute,
                                  !.plan = plan]
     IN  taskDetails' = Effects(taskDetails, t, FALSE)

\* getTask rejected
fetchTaskFails ==
  /\ UNCHANGED exceptTaskDetails
  /\ ~taskDetails.task
  /\ taskDetails.executionStatus = "idle"
  /\ taskDetails' = [taskDetails EXCEPT !.executionStatus = "error"]

\* the button Ejecutar Plan, shown while the plan is not accepted
handleAcceptPlan ==
  /\ UNCHANGED exceptTaskDetails
  /\ taskDetails.task /\ ~taskDetails.planAccepted
  /\ taskDetails.pending < MaxRequests
  /\ LET t == handleExecuteStep([taskDetails EXCEPT !.planAccepted = TRUE])
     IN  taskDetails' = Effects(taskDetails, t, FALSE)

\* the button Ejecutar Plan Automaticamente (lines 498-502)
executeAutomatically ==
  /\ UNCHANGED exceptTaskDetails
  /\ taskDetails.task /\ ~taskDetails.planAccepted
  /\ taskDetails.pending < MaxRequests
  /\ LET t == handleExecuteStep([taskDetails EXCEPT !.planAccepted = TRUE,
                                                   !.autoExecuteEnabled = TRUE])
     IN  taskDetails' = Effects(taskDetails, t, FALSE)

\* the timer of the auto-continue effect fires
autoContinueTimer ==
  /\ UNCHANGED exceptTaskDetails
  /\ taskDetails.timer
  /\ taskDetails.pending < MaxRequests
  /\ LET t == handleExecuteStep([taskDetails EXCEPT !.timer = FALSE])
     IN  taskDetails' = Effects(taskDetails, t, FALSE)

\* the request of a handleExecuteStep call settles (lines 96-118)
stepResult(res) ==
  /\ UNCHANGED exceptTaskDetails
  /\ taskDetails.pending > 0
  /\ res \in Answers(taskDetails.plan)
  /\ LET t == [taskDetails EXCEPT !.pending = @ - 1,
                                  !.plan = PlanAfter(@, res)]
     IN  taskDetails' =
           IF res = Rejected
           THEN Effects(taskDetails, [t EXCEPT !.executionStatus = "error"], FALSE)
           ELSE Effects(taskDetails,
                        [t EXCEPT !.lastResult = res,
                                  !.executionStatus = StatusAfter(res)],
                        TRUE)

\* the button Completar todos los pasos automaticamente (line 554), and
\* handleAutoContinue up to the first await of its loop
handleAutoContinue ==
  /\ UNCHANGED exceptTaskDetails
  /\ taskDetails.task /\ taskDetails.planAccepted
  /\ taskDetails.lastResult # NoStepResult
  /\ taskDetails.executionStatus = "waiting_for_input"
  /\ ~taskDetails.autoExecuteEnabled
  /\ LET t == [taskDetails EXCEPT !.autoExecuteEnabled = TRUE,
                                  !.executionStatus = "executing",
                                  !.loop.pc = "awaiting"]
     IN  taskDetails' = Effects(taskDetails, t, FALSE)

\* the request of the loop settles: lines 162-198, and the next request when
\* the loop goes on
loopResult(res) ==
  /\ UNCHANGED exceptTaskDetails
  /\ taskDetails.loop.pc = "awaiting"
  /\ res \in Answers(taskDetails.plan)
  /\ LET t == [taskDetails EXCEPT !.plan = PlanAfter(@, res),
                                  !.loop.last = res]
         retryCount == RetryCountAfter(taskDetails.loop.retryCount, res)
         appended == [t EXCEPT !.lastResult = res, !.loop.retryCount = retryCount]
     IN  taskDetails' =
           IF res = Rejected
           THEN Effects(taskDetails,
                        [t EXCEPT !.executionStatus = "error", !.loop.pc = "done",
                                  !.loop.stopped = "rejected", !.loop.status = "error"],
                        FALSE)
           ELSE IF res.status = "error"
           THEN Effects(taskDetails,
                        [appended EXCEPT !.executionStatus = "error", !.loop.pc = "done",
                                         !.loop.stopped = "error", !.loop.status = "error"],
                        TRUE)
           ELSE IF ~ContinueExecution(res)
           THEN Effects(taskDetails,
                        [appended EXCEPT !.executionStatus = "completed",
                                         !.loop.pc = "done",
                                         !.loop.stopped = "completed",
                                         !.loop.status = "completed"],
                        TRUE)
           ELSE IF retryCount >= MaxAutoRetries
           THEN Effects(taskDetails,
                        [appended EXCEPT !.executionStatus = "waiting_for_input",
                                         !.loop.pc = "done",
                                         !.loop.stopped = "retries",
                                         !.loop.status = "waiting_for_input"],
                        TRUE)
           ELSE Effects(taskDetails, appended, TRUE)

-----------------------------------------------------------------------------
(* Specifications *)

InitOutcomes == {"noDocker", "imageFailed", "runFailed", "execFailed", "ok"}
CreateOutcomes == {"ok", "runFailed", "inspectFailed"}

Init ==
  /\ PoolInit
  /\ FixInit
  /\ planner = NoPlanner
  /\ structured = NoStructured
  /\ indicator = NoIndicator
  /\ execution = NoExecution
  /\ cleanupOthers = NoCleanupOthers
  /\ taskDetails = NoTaskDetails
  /\ sequence = NoSequence

InitializeStep ==
  \E outcome \in InitOutcomes, listOk \in BOOLEAN :
    \E left \in [DOMAIN runtime -> RemovalOutcomes] :
      /\ (~listOk \/ outcome = "noDocker") => \A x \in DOMAIN runtime : left[x] = "removed"
      /\ Initialize(outcome, listOk, left)

Step(p) ==
  \/ \E ok \in BOOLEAN : GetAll(p, ok)
  \/ \E ok \in BOOLEAN : CleanupGetAll(p, ok)
  \/ \E stopOk, rmOk \in BOOLEAN : CleanupRemove(p, stopOk, rmOk)
  \/ CleanupDone(p)
  \/ \E outcome \in CreateOutcomes : Create(p, outcome)

\* any caller may call at any time: calls overlap
Next ==
  \/ InitializeStep
  \/ \E p \in Callers : \E cfg \in Configs : Call(p, cfg)
  \/ \E p \in Callers : Step(p)
  \/ \E n \in DOMAIN runtime : ContainerExits(n)

Spec == Init /\ [][Next]_vars

\* serialized calls: each call is made after the one before it has finished
\* (one chain of awaited calls)
Chain == CHOOSE p \in Callers : \A q \in Callers : p <= q

NextSerial ==
  \/ InitializeStep
  \/ \E cfg \in Configs : Call(Chain, cfg)
  \/ Step(Chain)
  \/ \E n \in DOMAIN runtime : ContainerExits(n)

SpecSerial == Init /\ [][NextSerial]_vars

\* overlapping calls (the calls of a Promise.all) whose requests all succeed
NextOverlap ==
  \/ Initialize("ok", TRUE, [x \in DOMAIN runtime |-> "removed"])
  \/ \E p \in Callers :
       \/ \E cfg \in Configs : Call(p, cfg)
       \/ GetAll(p, TRUE)
       \/ CleanupGetAll(p, TRUE)
       \/ CleanupRemove(p, TRUE, TRUE)
       \/ CleanupDone(p)
       \/ Create(p, "ok")

SpecOverlap == Init /\ [][NextOverlap]_vars

\* the initialization and the calls that await it, from any caller at any
\* moment
NextInitialize ==
  \/ InitializeStep
  \/ InitializeCalled
  \/ \E p \in Callers : \E cfg \in Configs : Call(p, cfg)

SpecInitialize == Init /\ [][NextInitialize]_vars


\* the planner calls the tool with the arguments the model chose
Repair == fix.pc = "idle" /\ \E args \in Args : shell_fix_command(args)

\* one repair of one failed command
NextFix ==
  \/ Repair
  \/ foundFiles
  \/ findAllResult
  \/ pythonVersions
  \/ nodeCheck
  \/ whichCommand
  \/ fixOutput

SpecFix == Init /\ [][NextFix]_vars

\* one call of generateAgenticPlan
NextPlan ==
  \/ \E fileNames \in SUBSET InputFiles : generateAgenticPlan(fileNames)
  \/ \E hasFilesToAnalyze \in BOOLEAN : filesRelevanceResponse(hasFilesToAnalyze)
  \/ \E hasSearchQueries \in BOOLEAN : externalInfoResponse(hasSearchQueries)
  \/ \E ok \in BOOLEAN : simulateWebSearch(ok)
  \/ \E ok \in BOOLEAN : getAvailableContainer(ok)
  \/ \E outcome \in InitOutcomes : createResponse(outcome)
  \/ \E ok \in BOOLEAN : uploadFiles(ok)
  \/ \E ok \in BOOLEAN : recon(ok)
  \/ \E kind \in Kinds, run \in CandidateRuns : output(kind, run)
  \/ \E ok \in BOOLEAN : findResult(ok)
  \/ \E ok \in BOOLEAN : altLsResult(ok)
  \/ \E ok \in BOOLEAN : altOutput(ok)
  \/ \E ok \in BOOLEAN : diagnostics(ok)
  \/ \E ok \in BOOLEAN, pasos \in 1..2 : createDetailedPlan(ok, pasos)

SpecPlan == Init /\ [][NextPlan]_vars

\* the model's answer to the structured request
Responds ==
  structured.pc = "generateContent" /\ \E text \in Texts : responseText(text)

\* the request of the operation is rejected
Rejects == \E error \in ApiErrors : generateContentRejects(error)

\* one call of getStructuredResponse
NextStructured ==
  \/ \E schema \in Schemas : getStructuredResponse(schema)
  \/ Responds
  \/ Rejects
  \/ retryDelay

SpecStructured == Init /\ [][NextStructured]_vars

\* withRetry does not look at what its operation returns: the response
\* texts that hold no object stand for all of them
ScalarTexts == {text \in Texts : text.value.type # "object"}

RespondsScalar ==
  structured.pc = "generateContent" /\ \E text \in ScalarTexts : responseText(text)

\* one call whose operation settles and whose timers fire
NextRetry ==
  \/ \E schema \in Schemas : getStructuredResponse(schema)
  \/ RespondsScalar
  \/ Rejects
  \/ retryDelay

SpecRetry ==
  /\ Init
  /\ [][NextRetry]_vars
  /\ WF_vars(RespondsScalar \/ Rejects)
  /\ WF_vars(retryDelay)

\* the mounted status indicator, its fetches and the passing of time
NextStatus ==
  \/ Mount
  \/ FetchSucceeds
  \/ FetchFails
  \/ Tick
  \/ TimerFires

SpecStatus == Init /\ [][NextStatus]_vars

\* the request of the command settles
Settles == \E run \in ExecutionRuns : stdout(run)

\* one call of execute
NextExecution ==
  \/ \E options \in ExecutionOptions : execute(options)
  \/ \E ok \in BOOLEAN : getContainer(ok)
  \/ Settles
  \/ timeoutPromise

SpecExecution == Init /\ [][NextExecution]_vars

\* one call of executeSequence
NextSequence ==
  \/ \E commands \in 0..MaxSequence, options \in ExecutionOptions :
       executeSequence(commands, options)
  \/ \E ok \in BOOLEAN : getContainer(ok)
  \/ Settles
  \/ timeoutPromise
  \/ executeResult

SpecSequence == Init /\ [][NextSequence]_vars

\* requests to the cleanup-others endpoint.  docker rm runs only when docker
\* stop stopped every target; the fallback cannot stop a container that the
\* batch removed
CleanupOthersStep ==
  \E keepContainerId \in KeepIds, listOk \in BOOLEAN :
    \E left \in [DOMAIN runtime -> RemovalOutcomes],
       each \in [DOMAIN runtime -> IndividualOutcomes] :
      /\ (\E x \in DOMAIN runtime : left[x] = "untouched")
           => \A x \in DOMAIN runtime : left[x] # "removed"
      /\ \A x \in DOMAIN runtime : left[x] = "removed" => each[x] = "stopFailed"
      /\ CleanupOthers(keepContainerId, listOk, left, each)

NextCleanupOthers == CleanupOthersStep

SpecCleanupOthers == Init /\ [][NextCleanupOthers]_vars

\* the request of a handleExecuteStep call settles
StepSettles == \E res \in StepResults \cup {Rejected} : stepResult(res)

\* the request of the loop of handleAutoContinue settles
LoopSettles == \E res \in StepResults \cup {Rejected} : loopResult(res)

\* one mounted TaskDetails, the user and the backend
NextTask ==
  \/ \E auto_execute \in BOOLEAN, plan \in Plans : fetchTask(auto_execute, plan)
  \/ fetchTaskFails
  \/ handleAcceptPlan
  \/ executeAutomatically
  \/ autoContinueTimer
  \/ StepSettles
  \/ handleAutoContinue
  \/ LoopSettles

\* the component does not touch the containers: the runtime starts empty
InitTask == Init /\ env.preexisting = 0

\* every request of the loop is answered or rejects in the end
SpecTask == InitTask /\ [][NextTask]_vars /\ WF_vars(LoopSettles)

-----------------------------------------------------------------------------
(* Properties of getAvailableContainer *)

C2_NewContainerSurvives ==
  \A p \in Callers :
    (pc[p] = "returned" /\ trace[p].create = "ok" /\ Len(containers[p]) > 0) =>
      /\ Resolve(result[p].id) \notin trace[p].attempted2
      /\ trace[p].alive

\* C3: from a runtime with no containers and with no request failing, every
\* call of a serialized chain after the first, made with the first call's
\* config, returns the container the first call obtained and issues no
\* create request.
C3_OneCreationPerChain ==
  ( /\ env.preexisting = 0 /\ env.faults = 0
    /\ pc[Chain] \in {"returned", "rejected"}
    /\ trace[Chain].nth >= 2
    /\ config[Chain] = first.config ) =>
      /\ pc[Chain] = "returned"
      /\ first.outcome = "returned"
      /\ trace[Chain].create = "none"
      /\ Resolve(result[Chain].id) = first.n

\* C4: overlapping calls are not mutually excluded: while one call is in
\* flight, another caller can start a call, and a call that has started can
\* list, whatever the first call is doing.
C4_NotMutuallyExcluded ==
  \A p \in Callers : \A q \in Callers \ {p} :
    InFlight(p) =>
      /\ (~InFlight(q) /\ calls < MaxCalls) => ENABLED Call(q, NoConfig)
      /\ pc[q] = "getAll" => ENABLED GetAll(q, TRUE)

\* C4: both calls listed before either acted, both created, and the cleanup
\* of one removed the container the other has returned
C4_Witness ==
  \E p \in Callers : \E q \in Callers \ {p} :
    /\ pc[p] = "returned" /\ pc[q] = "returned"
    /\ trace[p].overlap \/ trace[q].overlap
    /\ trace[p].create = "ok" /\ trace[q].create = "ok"
    /\ Resolve(result[q].id) \in trace[p].attempted2 \ trace[p].failed
    /\ ~Exists(runtime, result[q].id)

C6_RemovalFailureNotFatal ==
  \A p \in Callers :
    (pc[p] \in {"returned", "rejected"} /\ trace[p].failed # {}) =>
      \/ pc[p] = "returned" /\ result[p] # NoInfo
      \/ trace[p].create = "failed"

\* C6: a call has returned a container and a container whose removal it
\* requested without success is still in the runtime
C6_Witness ==
  /\ pc[Chain] = "returned"
  /\ result[Chain] # NoInfo
  /\ trace[Chain].requested
  /\ \E n \in trace[Chain].failed : n \in DOMAIN runtime

\* C7: a call whose first listing or whose create request failed is rejected
\* and returns no container; when the listing failed the call has issued no
\* create and no remove request.
C7_ListingOrCreateFailureRejects ==
  \A p \in Callers :
    /\ trace[p].list = "failed" =>
         /\ pc[p] = "rejected" /\ result[p] = NoInfo
         /\ trace[p].create = "none"
         /\ ~trace[p].requested
         /\ trace[p].attempted1 \cup trace[p].attempted2 = {}
    /\ trace[p].create = "failed" => pc[p] = "rejected" /\ result[p] = NoInfo

\* C7: a call rejected because its first listing failed, with containers in
\* the runtime
C7_Witness ==
  /\ pc[Chain] = "rejected"
  /\ trace[Chain].list = "failed"
  /\ DOMAIN runtime # {}

\* C8: whenever the docker stop of a removal fails, the docker rm of that
\* container is still attempted.
C8_StopFailureDoesNotBlockRm ==
  lastDelete.stop = "failed" => lastDelete.rm # "none"

-----------------------------------------------------------------------------
(* Properties of shell_fix_command *)

\* C9: when the fixed command fails inside the container, the result has
\* success = false and its output is the error of that second execution.
C9_SecondFailureReported ==
  ( /\ fix.pc = "done"
    /\ fix.executions = 1
    /\ fix.run.exit = "fail"
    /\ Exists(runtime, fix.args.container_id) ) =>
      /\ fix.result.success = FALSE
      /\ fix.result.output = fix.run.text

\* C10, as amended: for every error message that holds "No such file or
\* directory", whatever else it holds, the result reports fix_strategy =
\* file_not_found whenever no lookup throws, whatever the lookups return;
\* when a lookup throws, the result has success = false, an error and no
\* fix_strategy.
C10_FileNotFoundStrategy ==
  (fix.pc = "done" /\ Includes(fix.args.error_message, "No such file or directory")) =>
    IF fix.threw
    THEN /\ DOMAIN fix.result = {"original_command", "error", "success"}
         /\ fix.result.success = FALSE
         /\ fix.executions = 0
    ELSE /\ "fix_strategy" \in DOMAIN fix.result
         /\ fix.result.fix_strategy = "file_not_found"

\* C10, as stated: for every error message that holds "No such file or
\* directory" the result reports fix_strategy = file_not_found, never
\* another or a missing strategy.
C10_AsStated ==
  (fix.pc = "done" /\ Includes(fix.args.error_message, "No such file or directory")) =>
    /\ "fix_strategy" \in DOMAIN fix.result
    /\ fix.result.fix_strategy = "file_not_found"

\* C10: a message that also holds "Permission denied", both lookups returned
\* nothing, and the result reports file_not_found
C10_Witness ==
  /\ fix.pc = "done"
  /\ {"No such file or directory", "Permission denied"} \subseteq fix.args.error_message
  /\ fix.lookups = 2
  /\ ~fix.threw
  /\ fix.result.fix_strategy = "file_not_found"


\* C11, as amended: for the error text "bash: foo: command not found" and the
\* failed command "foo --version", a repair whose lookup returned reports the
\* strategy command_not_found; if the which lookup found foo the fixed
\* command has the resolved location in place of foo, and if it found none
\* the fixed command is the original command, not wrapped in a sub-shell.
C11_CommandNotFoundRepair ==
  (/\ fix.pc = "done"
   /\ ~fix.threw
   /\ fix.args.failed_command = Cmd(<<"foo", "--version">>)
   /\ fix.args.error_message = {"command not found"})
  => /\ fix.result.fix_strategy = "command_not_found"
     /\ fix.which = Ran(<<<<BinPath("foo")>>>>)
          => fix.result.fixed_command = Cmd(<<BinPath("foo"), "--version">>)
     /\ fix.which = Ran(<<<<"Not found">>>>)
          => fix.result.fixed_command = fix.args.failed_command

\* C11 as stated: when the lookup finds no location the repair reports
\* general_fallback and the original command wrapped in a sub-shell
C11_AsStated ==
  (/\ fix.pc = "done"
   /\ ~fix.threw
   /\ fix.args.failed_command = Cmd(<<"foo", "--version">>)
   /\ fix.args.error_message = {"command not found"})
  => /\ fix.which = Ran(<<<<BinPath("foo")>>>>)
          => fix.result.fixed_command = Cmd(<<BinPath("foo"), "--version">>)
     /\ fix.which = Ran(<<<<"Not found">>>>)
          => /\ fix.result.fix_strategy = "general_fallback"
             /\ fix.result.fixed_command = Wrap(fix.args.failed_command)

\* the lookup found no location for foo and the repair has returned
C11_Witness ==
  /\ fix.pc = "done"
  /\ ~fix.threw
  /\ fix.args.failed_command = Cmd(<<"foo", "--version">>)
  /\ fix.args.error_message = {"command not found"}
  /\ fix.which = Ran(<<<<"Not found">>>>)
  /\ fix.result.fixed_command = Cmd(<<"foo", "--version">>)


RuleOrder == <<"file_not_found", "permission_denied", "command_not_found", "syntax_error">>

RuleSubstrings(rule) ==
  CASE rule = "file_not_found" -> {"No such file or directory"}
    [] rule = "permission_denied" -> {"Permission denied"}
    [] rule = "command_not_found" -> {"command not found", "not found"}
    [] rule = "syntax_error" -> {"unexpected token", "syntax error"}

RuleMatches(i, msg) == \E s \in RuleSubstrings(RuleOrder[i]) : Includes(msg, s)

\* C13: the strategy of a repair is that of the first rule, in the order
\* file_not_found, permission_denied, command_not_found, syntax_error, one of
\* whose substrings the error message contains; it is general_fallback
\* exactly when no rule matches; the result that reports a strategy reports
\* that one.
C13_FirstMatchingRule ==
  fix.pc # "idle" =>
    LET msg == fix.args.error_message
        matching == {i \in DOMAIN RuleOrder : RuleMatches(i, msg)}
    IN  /\ \A i \in matching :
             (\A j \in matching : i <= j) => fix.fixStrategy = RuleOrder[i]
        /\ (matching = {}) <=> (fix.fixStrategy = "general_fallback")
        /\ (fix.pc = "done" /\ ~fix.threw) => fix.result.fix_strategy = fix.fixStrategy

\* a message with the substrings of two rules was repaired by the earlier one
C13_Witness ==
  /\ fix.pc = "done"
  /\ ~fix.threw
  /\ fix.args.error_message = {"command not found", "syntax error"}
  /\ fix.result.fix_strategy = "command_not_found"


-----------------------------------------------------------------------------
(* Properties of generateAgenticPlan *)

\* C14: when createDetailedPlan throws, generateAgenticPlan returns the
\* degraded plan (one fallback step, requiereInfoExterna and
\* requiereAnalisisArchivos both false) instead of rejecting.
C14_DegradedPlanOnThrow ==
  (planner.pc = "done" /\ planner.planThrew)
    => /\ planner.outcome = "returned"
       /\ planner.result = DegradedPlan

\* C15: no candidate command is sent to the executor once more than 3
\* candidates have failed, by a non-zero exit in the container or by an
\* executor error, and none has succeeded.
C15_BreakerStopsLoop ==
  planner.pc = "output"
    => ~(planner.failed > FailureThreshold /\ planner.succeeded = 0)

\* C16: once a candidate command of the loop has failed, the repair routine
\* has been invoked for it by the time the loop waits for its next request.
C16_FailureTriggersRepair == planner.failed > 0 => fix.pc # "idle"

PhaseIndex(name) == CHOOSE i \in DOMAIN PhaseOrder : PhaseOrder[i] = name

OptionalPhases == {"SearchingExternally", "PreparingContainer", "RunningDockerCommands"}

\* C17: the phases a run of generateAgenticPlan has entered are in the order
\* IdentifyingFiles, AnalyzingFiles, EvaluatingExternalNeeds,
\* SearchingExternally, PreparingContainer, RunningDockerCommands,
\* GeneratingPlan, Done: none is entered twice, none is entered after a later
\* one, and only the optional ones are skipped.
C17_PhasesStrictlyForward ==
  LET h == planner.phases
  IN  /\ \A i \in DOMAIN h : h[i] \in {PhaseOrder[k] : k \in DOMAIN PhaseOrder}
      /\ \A i, j \in DOMAIN h : i < j => PhaseIndex(h[i]) < PhaseIndex(h[j])
      /\ \A i \in DOMAIN h : \A k \in 1..(PhaseIndex(h[i]) - 1) :
           PhaseOrder[k] \notin OptionalPhases => \E j \in 1..(i - 1) : h[j] = PhaseOrder[k]

\* a run that skipped the searches, ran the docker commands and returned
C17_Witness ==
  /\ planner.pc = "done"
  /\ planner.phases = <<"IdentifyingFiles", "AnalyzingFiles", "EvaluatingExternalNeeds",
                        "PreparingContainer", "RunningDockerCommands",
                        "GeneratingPlan", "Done">>
  /\ planner.index > 0


-----------------------------------------------------------------------------
(* Properties of getStructuredResponse *)

\* the value has the schema's top-level type and every required property
HasShape(v, schema) ==
  /\ v.type = schema.type
  /\ schema.required \subseteq DOMAIN v.props

\* C18: whatever the response text, the value getStructuredResponse returns
\* is an object of the requested schema's shape: it has the schema's
\* top-level type and lacks no required property, and the placeholder built
\* when nothing can be extracted holds every schema property with a value of
\* its declared type.
C18_ReturnsSchemaShape ==
  structured.pc = "returned" =>
    /\ HasShape(structured.value, structured.schema)
    /\ structured.text.form = "prose" =>
         /\ DOMAIN structured.value.props = DOMAIN structured.schema.properties
         /\ \A key \in DOMAIN structured.schema.properties :
              structured.value.props[key] = structured.schema.properties[key]


-----------------------------------------------------------------------------
(* Properties of StatusIndicator *)

\* C19: a status fetch issued after the n-th consecutive failure (n >= 1)
\* was issued no sooner than min(1000 * 2^n, 30000) ms after that failure,
\* and after a successful fetch the failure counter is 0.
C19_RetryWaitsForBackoff ==
  /\ indicator.issued.failures > 0
       => indicator.issued.waited >= Min(RetryBase * Pow2(indicator.issued.failures), RetryCap)
  /\ ~indicator.error => indicator.retryCount = 0


-----------------------------------------------------------------------------
(* Properties of useDockerExecution.execute *)

\* C20: when the timeout of execute fired before the request of the command
\* settled, execute has returned a result with success false and the request
\* was not cancelled: it is still under way, and can still complete, or it
\* has settled since.
C20_TimeoutAbandonsRequest ==
  execution.timedOut =>
    /\ execution.pc = "returned"
    /\ execution.options.timeout # 0
    /\ execution.result.success = FALSE
    /\ execution.request \in {"sent", "completed", "failed"}
    /\ execution.request = "sent" => ENABLED Settles

\* the command completed in the container after execute had returned the
\* timeout
C20_Witness ==
  /\ execution.timedOut
  /\ execution.pc = "returned"
  /\ execution.result.success = FALSE
  /\ execution.request = "completed"

-----------------------------------------------------------------------------
(* Properties of the cleanup-others endpoint *)

\* C21: a cleanup-others request that names a container to keep, by its full
\* or by its short id, neither stops nor removes that container: it is not among
\* the targets and the runtime holds it afterwards as it was before.
C21_KeptContainerUntouched ==
  (cleanupOthers.status = 200 /\ Exists(cleanupOthers.before, cleanupOthers.keepContainerId))
    => LET n == Resolve(cleanupOthers.keepContainerId)
       IN  /\ n \notin Numbers(cleanupOthers.targets)
           /\ n \in DOMAIN runtime
           /\ runtime[n] = cleanupOthers.before[n]

\* C22: when no rule matches the error message, the fixed command is wrapped
\* in bash -c "..." exactly once: a failed command that is a bash -c "..." line
\* already is left as it is, any other command is wrapped.
C22_WrappedExactlyOnce ==
  (fix.pc \in {"execute", "done"} /\ ~fix.threw
   /\ Classify(fix.args.error_message) = "unknown")
    => LET originalCommand == fix.args.failed_command
       IN  fix.fixedCommand = IF originalCommand.wrapped > 0 THEN originalCommand
                              ELSE Wrap(originalCommand)

\* C23: when a lookup command of the repair (find, command -v, which) throws,
\* the routine returns instead of throwing: its result has success = false
\* and carries the error, and no fixed command is or will be executed.
C23_LookupExceptionCaught ==
  fix.threw =>
    /\ fix.pc = "done"
    /\ fix.lookups >= 1
    /\ fix.result.success = FALSE
    /\ "error" \in DOMAIN fix.result
    /\ fix.result.error # <<>>
    /\ fix.executions = 0
    /\ ~ENABLED fixOutput

\* the second lookup of a repair threw and the repair has returned
C23_Witness ==
  /\ fix.threw
  /\ fix.pc = "done"
  /\ fix.lookups = 2
  /\ fix.result.success = FALSE
  /\ fix.result.original_command = fix.args.failed_command

-----------------------------------------------------------------------------
(* Properties of TaskDetails *)

\* C24: for the task shown in TaskDetails at most one executeStep request is
\* in flight at any time, whatever the order of the effects, the timer of the
\* auto-continue effect, the loop of handleAutoContinue and the clicks.
C24_OneRequestInFlight == RequestsInFlight(taskDetails) <= 1

\* what the loop of handleAutoContinue keeps to: it counts at most
\* MaxAutoRetries results still waiting, goes on only after a result that is
\* no error, does not complete the task and has a next step, and stops for
\* the reason its last result gives
LoopStops ==
  LET loop == taskDetails.loop
  IN  /\ loop.retryCount <= MaxAutoRetries
      /\ loop.pc = "awaiting" =>
           /\ loop.retryCount < MaxAutoRetries
           /\ loop.last = NoStepResult \/ ContinueExecution(loop.last)
      /\ loop.pc = "done" =>
           /\ loop.stopped = "rejected" <=> loop.last = Rejected
           /\ loop.stopped = "error" <=> loop.last.status = "error"
           /\ loop.stopped = "completed" <=>
                /\ loop.last.status \in {"success", "waiting_for_input"}
                /\ loop.last.task_status = "completed" \/ ~loop.last.next_step
           /\ loop.stopped = "retries" <=>
                /\ loop.last # Rejected
                /\ ContinueExecution(loop.last)
           /\ loop.stopped = "retries" =>
                /\ loop.retryCount = MaxAutoRetries
                /\ loop.last.status = "waiting_for_input"
                /\ loop.status = "waiting_for_input"

-----------------------------------------------------------------------------
(* Properties of DockerService.initialize *)

\* C25: a DockerService sends at most one POST /api/docker/initialize in its
\* life: a call made while the request is in flight or after it has settled
\* sends none, a failed initialization is not attempted again, and every
\* getAvailableContainer call made after it failed rejects.
C25_InitializeOnce ==
  /\ env.initializeRequests <= 1
  /\ initState # "pending" => ~ENABLED InitializeStep
  /\ initState = "failed" => \A p \in Callers : pc[p] \in {"idle", "rejected"}
  /\ \A p \in Callers : pc[p] = "getAll" => initState = "ok"

\* the initialization failed, initialize() was called again and both callers
\* were rejected
C25_Witness ==
  /\ initState = "failed"
  /\ env.initializeCalls = MaxInitializeCalls
  /\ env.initializeRequests = 1
  /\ \A p \in Callers : pc[p] = "rejected"

-----------------------------------------------------------------------------
(* Properties of the planner's container *)

\* C27: the container whose id generateAgenticPlan uses for its uploads and
\* commands was running, and was the most recently created one, when
\* getAvailableContainer returned it.
C27_ContainerWasRunning ==
  planner.containerId # NoId =>
    /\ planner.container.status = "running"
    /\ Exists(runtime, planner.containerId)
    /\ \A n \in DOMAIN runtime : runtime[n].created <= planner.container.created


\* C28: every run of generateAgenticPlan reaches GeneratingPlan and calls
\* createDetailedPlan exactly once, whatever failed in the earlier phases:
\* a run that has ended went through GeneratingPlan and made one call.
C28_PlanRequestedOnce ==
  planner.pc = "done" =>
    /\ \E i \in DOMAIN planner.phases : planner.phases[i] = "GeneratingPlan"
    /\ planner.planCalls = 1


-----------------------------------------------------------------------------
(* Properties of executeSequence *)

\* C29: executeSequence runs the commands in order and stops at the first
\* result with success false: results holds the results of commands
\* 1..Len(results), every result but the last is successful, the commands
\* handed to execute are 1, 2, ... with at most one beyond the results, and
\* the returned list ends at the first failure or holds every command.
C29_SequenceStopsAtFailure ==
  LET r == sequence.results
      x == sequence.executed
  IN  /\ Len(r) <= sequence.commands
      /\ \A i \in DOMAIN r : r[i].command = i
      /\ \A i \in DOMAIN r : i < Len(r) => r[i].success
      /\ \A i \in DOMAIN x : x[i] = i
      /\ Len(x) \in {Len(r), Len(r) + 1}
      /\ (Len(r) > 0 /\ ~r[Len(r)].success) => Len(x) = Len(r)
      /\ sequence.pc = "returned" =>
           /\ Len(x) = Len(r)
           /\ Len(r) < sequence.commands => (Len(r) > 0 /\ ~r[Len(r)].success)

C29_Witness ==
  /\ sequence.pc = "returned"
  /\ sequence.commands = 3
  /\ Len(sequence.results) = 2
  /\ sequence.results[1].success
  /\ ~sequence.results[2].success
  /\ sequence.executed = <<1, 2>>


-----------------------------------------------------------------------------
(* Properties of GeminiService.withRetry *)

\* the operation ran at most maxRetries times; what was thrown is the last
\* processed error, thrown after one run when it is not retryable and after
\* the third run otherwise
RetryBounded ==
  /\ structured.runs <= maxRetries
  /\ structured.pc = "threw" =>
       /\ structured.thrown = structured.lastError
       /\ structured.thrown # NoError
       /\ IF {"429", "500"} \cap structured.thrown.holds = {}
          THEN structured.runs = structured.attempt + 1
          ELSE structured.runs = maxRetries

\* C30: every withRetry invocation terminates after running its operation
\* at most 3 times; a rejection whose processed message holds neither "429"
\* nor "500" is rethrown at once, and after the third retryable rejection
\* the last processed error is thrown.
C30_WithRetryTerminates ==
  /\ []RetryBounded
  /\ (structured.pc = "generateContent") ~> (structured.pc \in {"returned", "threw"})

C30_Witness ==
  /\ structured.pc = "threw"
  /\ structured.runs = maxRetries
  /\ "500" \in structured.thrown.holds

=============================================================================
